---------------------------- MODULE Spec2Model ----------------------------
(***************************************************************************)
(* Reference lifecycle and difference-imaging pipeline of cdips-pipeline   *)
(* (autoimagesub.py, imagesubphot.py).                                     *)
(*                                                                         *)
(* Six specifications share this module:                                   *)
(*   Spec      the reference registry (astromrefs / photrefs tables of     *)
(*             TM-refinfo.sqlite) and the reference area on disk, driven   *)
(*             by generate_astromref, generate_combined_photref,           *)
(*             get_astromref and get_combined_photref;                     *)
(*   SpecSel   photometric reference candidate selection, its on-disk      *)
(*             caches and the interactive amendment;                       *)
(*   SpecSelPure  the candidate selection as a function of its inputs;     *)
(*   SpecAref  the pure ranking of select_astromref_frame;                 *)
(*   SpecXtrns the shift of frames to the astrometric reference            *)
(*             (framelist_make_xtrnsfits, frames_astromref_worker);        *)
(*   SpecSub   image subtraction, its photometry and database ingest       *)
(*             (xtrnsfits_convsubphot, parallel_convsubphot_to_db).        *)
(* Numeric quantities (angles, background counts, S and D values) are      *)
(* integers in units of 0.01.                                               *)
(***************************************************************************)
EXTENDS Integers, Sequences, FiniteSets, TLC

VARIABLES
    \* ---- registry (Spec) ----
    photrefs,      \* rows of the photrefs table, in insertion (rowid) order
    astromrefs,    \* rows of the astromrefs table, in insertion order
    files,         \* reference area and build inputs: path -> content stamp, 0 = absent
    cachedcomb,    \* 'combinedphotref' entry of the selection-info cache file
    nops,          \* number of generate_* calls made so far (serves as time.time())
    regret,        \* what the last registry call did and returned
    builders,      \* concurrent generate_combined_photref calls: where each is
    \* ---- candidate selection (SpecSel, SpecSelPure) ----
    diskinfo,      \* frame -> what get_frame_info reads from its sidecar files
    ficache,       \* FRAMEINFOCACHEDIR/TM-frameinfo-<md5>.pkl.gz, by frame list
    selcache,      \* TM-photref-<cachekey>/selection-info.pkl.gz, by cache key
    corrupt,       \* cache files that exist but cannot be unpickled
    jpegs,         \* quick-look JPEGs on disk: <<cachekey, frame>>
    tiebreak,      \* how this build's np.argsort orders equal keys
    nsel,          \* number of selection / amendment calls made so far
    selret,        \* what the last selection / amendment call did and returned
    \* ---- astrometric reference ranking (SpecAref) ----
    arefin,        \* the frames select_astromref_frame looks at
    arefout,       \* what select_astromref_frame returned
    \* ---- per-frame workers and batch drivers (SpecXtrns, SpecSub) ----
    wfs,           \* frame -> the files of that frame in its directory
    wbad,          \* frame -> the files of that frame in badframes/
    wret,          \* what the last batch driver call did and returned
    ismphot,       \* the committed rows of the iphotfiles and iphotobjects tables
    dbret          \* what the last ingestion call did and returned

regvars == <<photrefs, astromrefs, files, cachedcomb, nops, regret, builders>>

selvars == <<diskinfo, ficache, selcache, corrupt, jpegs, tiebreak, nsel, selret>>

arefvars == <<arefin, arefout>>

wrkvars == <<wfs, wbad, wret, ismphot, dbret>>

vars == <<regvars, selvars, arefvars, wrkvars>>

\* the parts of the state a specification does not drive stay as they are here
RegIdle ==
    /\ photrefs = <<>> /\ astromrefs = <<>> /\ files = <<>>
    /\ cachedcomb = <<>> /\ nops = 0 /\ regret = <<>> /\ builders = <<>>

SelIdle ==
    /\ diskinfo = <<>> /\ ficache = <<>> /\ selcache = <<>> /\ jpegs = {}
    /\ corrupt = <<>>
    /\ tiebreak = "stable" /\ nsel = 0 /\ selret = <<>>

ArefIdle == arefin = <<>> /\ arefout = <<>>

WrkIdle ==
    /\ wfs = <<>> /\ wbad = <<>> /\ wret = <<>>
    /\ ismphot = <<>> /\ dbret = <<>>

-----------------------------------------------------------------------------
(* Bounds *)

MaxOps == 2        \* generate_astromref / generate_combined_photref calls per run

NFrames == 3       \* frames in the list handed to the candidate selection

MaxMinFrames == 2  \* largest minframes asked for

MaxSelOps == 3     \* selection / amendment calls per run

NAref == 3         \* frames select_astromref_frame finds with both sidecar files

TopK == 2          \* length of each ranking's head; the code keeps 200

MaxArefRuns == 2   \* runs of select_astromref_frame over one frame list

NTasks == 2        \* frames handed to one batch driver call

MaxCacheOps == 2   \* fitslist_frameinfo / selection calls per run in SpecCache

NObjects == 2      \* object lines in a frame's iphot file

MaxIngests == 2    \* direct calls of convsub_photometry_to_ismphot_database per run

NBuilders == 2     \* generate_combined_photref calls running at the same time

-----------------------------------------------------------------------------
(* Registry: names, paths and rows *)

\* the three combined photref depths the code knows (autoimagesub.py:1364-1390)
KnownTypes == {"oneframe", "onehour", "onenight"}

\* photreftype values passed by callers in this model; "weekly" is not a known type
TryTypes == {"oneframe", "onenight", "weekly"}

\* masterphotref paths: "mA" is ?-??????_5-xtrns.fits of field/project/ccd "A",
\* "nomatch" has a basename FRAMEREGEX does not match
Masters == {"mA", "nomatch"}

\* candidate frames for the astrometric reference; "a1" and "a2" belong to
\* field/project/ccd "A", the basename of "anomatch" does not match FRAMEREGEX
AFrames == {"a1", "a2", "anomatch"}

\* FRAMEREGEX.findall(os.path.basename(frame)) is non-empty
FrameRegexMatches(frame) == frame \in {"mA", "a1", "a2"}

\* (field, projectid, ccd) read from the header and the file name of a frame
FcpOf(frame) == "A"

\* keys looked up by get_astromref / get_combined_photref in this model
Fcps == {"A", "B"}

\* outcome of one external tool run (ism.genreg, ism.combine_frames, ...)
ToolOutcomes == {"ok", "fail"}

\* content stamp of a file that was on disk before the pipeline ran
InputStamp == 0 - 1

\* photrefinfo['photrefs'] handed to generate_combined_photref
CandidateFrames == {"c1", "c2"}

\* {REFBASEDIR}/proj{projid}-{field}-ccd{ccd}-combinedphotref-{photreftype}.{fileext}
PhotrefPath(ext, fcp, t) == <<ext, fcp, t>>

FistarPath(master) == <<"fistar", master, "">>

\* {fovcatdir}/{field}-gri{magspec}.catalog
FovcatPath(fcp, t) == <<"fovcat", fcp, t>>

\* proj{projectid}-{field}-ccd{ccd}-astromref-{origfname}.fits / .jpg / .fistar
ArefPath(ext, fcp, frame) == <<ext, fcp, frame>>

ArefExts == <<"areffits", "arefjpg", "areffistar">>

Paths ==
    {FistarPath(m) : m \in {x \in Masters : FrameRegexMatches(x)}}
    \cup {PhotrefPath(e, "A", t) : e \in {"reg", "fits", "cmraw"}, t \in TryTypes}
    \cup {FovcatPath("A", t) : t \in KnownTypes \cap TryTypes}
    \cup {ArefPath(ArefExts[i], "A", f) :
            i \in 1..3, f \in {x \in AFrames : FrameRegexMatches(x)}}

\* files that exist before the pipeline runs, if they exist at all
InputPaths ==
    {FistarPath(m) : m \in {x \in Masters : FrameRegexMatches(x)}}
    \cup {FovcatPath("A", t) : t \in KnownTypes \cap TryTypes}

PhotrefRow(fcp, t, makeactive, stamp, master) ==
    [fcp |-> fcp, photreftype |-> t,
     isactive |-> IF makeactive THEN 1 ELSE 0,
     unixtime |-> stamp,
     framepath |-> PhotrefPath("fits", fcp, t),
     convolvetarget |-> master,
     convolveregpath |-> PhotrefPath("reg", fcp, t),
     cmrawphotpath |-> PhotrefPath("cmraw", fcp, t)]

AstromrefRow(fcp, makeactive, stamp, frame) ==
    [fcp |-> fcp,
     isactive |-> IF makeactive THEN 1 ELSE 0,
     unixtime |-> stamp,
     framepath |-> ArefPath("areffits", fcp, frame),
     jpegpath |-> ArefPath("arefjpg", fcp, frame),
     original |-> frame]

\* an external tool asked to write `path`: it writes it (over what was there),
\* or fails and leaves the disk as it was
ToolRun(fs, path, outcome, stamp) ==
    IF outcome = "ok" THEN [fs EXCEPT ![path] = stamp] ELSE fs

Exists(fs, path) == fs[path] # 0

-----------------------------------------------------------------------------
(* generate_combined_photref, stage by stage.  c is the call:              *)
(* [master, fcp, type, makeactive, stamp]; fs is the disk when the stage   *)
(* starts.  Each stage yields the set of ways the call can end from there. *)

BuildEnd(status, fs, convs, cached, inserted) ==
    [status |-> status, files |-> fs, convs |-> convs,
     cached |-> cached, inserted |-> inserted]

\* cur.execute(insert) + db.commit(), or the except branch with db.rollback()
StageInsert(c, fs, convs) ==
    { BuildEnd("ok", fs, convs, TRUE, TRUE),
      BuildEnd("err_insert", fs, convs, TRUE, FALSE) }

\* get_frame_info(combinedphotref) after the cache file has been rewritten
StageFrameInfo(c, fs, convs) ==
    { BuildEnd("err_frameinfo", fs, convs, TRUE, FALSE) }
    \cup StageInsert(c, fs, convs)

\* StagePhotometry that goes on whatever the photometry run left behind
StagePhotometry_Unchecked(c, fs, convs) ==
    UNION { StageFrameInfo(
                c, ToolRun(fs, PhotrefPath("cmraw", c.fcp, c.type), o, c.stamp), convs)
          : o \in ToolOutcomes }

\* ism.photometry_on_combined_photref and the check of cphotref_photometry[1]
StagePhotometry(c, fs, convs) ==
    UNION { LET fs1 == ToolRun(fs, PhotrefPath("cmraw", c.fcp, c.type), o, c.stamp)
            IN  IF o = "ok" /\ Exists(fs1, PhotrefPath("cmraw", c.fcp, c.type))
                THEN StageFrameInfo(c, fs1, convs)
                ELSE { BuildEnd("err_phot", fs1, convs, FALSE, FALSE) }
          : o \in ToolOutcomes }

\* StageFovcat without the os.path.exists(photref_fovcatpath) check
StageFovcat_NoCatalogCheck(c, fs, convs) ==
    IF c.type \notin KnownTypes
    THEN { BuildEnd("err_type", fs, convs, FALSE, FALSE) }
    ELSE StagePhotometry(c, fs, convs)

\* choice of the field catalog by photreftype and the check that it exists
StageFovcat(c, fs, convs) ==
    IF c.type \notin KnownTypes
    THEN { BuildEnd("err_type", fs, convs, FALSE, FALSE) }
    ELSE IF ~Exists(fs, FovcatPath(c.fcp, c.type))
         THEN { BuildEnd("err_fovcat", fs, convs, FALSE, FALSE) }
         ELSE StagePhotometry(c, fs, convs)

\* ism.combine_frames and the check of combinedphotref[1]
StageCombine(c, fs, convs) ==
    UNION { LET fs1 == ToolRun(fs, PhotrefPath("fits", c.fcp, c.type), o, c.stamp)
            IN  IF o = "ok" /\ Exists(fs1, PhotrefPath("fits", c.fcp, c.type))
                THEN StageFovcat(c, fs1, convs)
                ELSE { BuildEnd("err_combine", fs1, convs, FALSE, FALSE) }
          : o \in ToolOutcomes }

\* ism.convolve_photref_frames; convs is the set of candidates whose convolved
\* frame exists afterwards
StageConvolve(c, fs) ==
    UNION { IF convs = {}
            THEN { BuildEnd("err_conv", fs, convs, FALSE, FALSE) }
            ELSE StageCombine(c, fs, convs)
          : convs \in SUBSET c.photrefs }

\* ism.genreg(masterphotref_fistar, regfpath) and the check of regfpath
StageGenreg(c, fs) ==
    UNION { LET fs1 == ToolRun(fs, PhotrefPath("reg", c.fcp, c.type), o, c.stamp)
            IN  IF ~Exists(fs1, PhotrefPath("reg", c.fcp, c.type))
                THEN { BuildEnd("err_reg", fs1, {}, FALSE, FALSE) }
                ELSE StageConvolve(c, fs1)
          : o \in ToolOutcomes }

\* header read, FRAMEREGEX on the master's basename, master source list
StageIdentity(c, fs) ==
    { BuildEnd("raise_header", fs, {}, FALSE, FALSE) }
    \cup IF ~FrameRegexMatches(c.master)
         THEN { BuildEnd("err_ccd", fs, {}, FALSE, FALSE) }
         ELSE IF ~Exists(fs, FistarPath(c.master))
              THEN { BuildEnd("err_fistar", fs, {}, FALSE, FALSE) }
              ELSE StageGenreg(c, fs)

\* every way generate_combined_photref(photrefinfo, photreftype, makeactive)
\* can end on disk fs at time stamp
GenerateCombinedPhotrefEnds(fs, master, t, makeactive, stamp) ==
    StageIdentity([master |-> master, fcp |-> FcpOf(master), type |-> t,
                   makeactive |-> makeactive, stamp |-> stamp,
                   photrefs |-> CandidateFrames], fs)

-----------------------------------------------------------------------------
(* generate_astromref *)

ArefEnd(status, fs, inserted) ==
    [status |-> status, files |-> fs, inserted |-> inserted]

\* the disk after the first n of the three shutil.copy calls
ArefCopied(fs, fcp, frame, n, stamp) ==
    [p \in DOMAIN fs |->
        IF \E i \in 1..n : p = ArefPath(ArefExts[i], fcp, frame)
        THEN stamp ELSE fs[p]]

\* the insert into astromrefs: commit, or the except branch with rollback
StageArefInsert(fs) ==
    { ArefEnd("ok", fs, TRUE), ArefEnd("err_insert", fs, FALSE) }

\* the three copies into REFBASEDIR; shutil.copy raises when it fails
StageArefCopy(fs, frame, stamp) ==
    { ArefEnd("raise_copy", ArefCopied(fs, FcpOf(frame), frame, n, stamp), FALSE)
      : n \in 0..2 }
    \cup StageArefInsert(ArefCopied(fs, FcpOf(frame), frame, 3, stamp))

\* every way generate_astromref can end.  goodfits: some input file exists;
\* selected: what ism.select_astromref_frame returned (<<>> for None);
\* given: field, ccd and projectid were all passed by the caller
GenerateAstromrefEnds(fs, goodfits, selected, given, stamp) ==
    IF ~goodfits THEN { ArefEnd("err_nogood", fs, FALSE) }
    ELSE IF selected = <<>> THEN { ArefEnd("err_noaref", fs, FALSE) }
    ELSE IF given THEN { ArefEnd("raise_unbound", fs, FALSE) }
    ELSE { ArefEnd("raise_header", fs, FALSE) }
         \cup IF ~FrameRegexMatches(selected[1])
              THEN { ArefEnd("err_ccd", fs, FALSE) }
              ELSE StageArefCopy(fs, selected[1], stamp)

-----------------------------------------------------------------------------
(* get_astromref, get_combined_photref *)

\* rows the select statement of get_combined_photref matches
ActivePhotrefRows(table, fcp, t) ==
    { i \in DOMAIN table : /\ table[i].isactive = 1
                           /\ table[i].fcp = fcp
                           /\ table[i].photreftype = t }

\* the rows of the key whatever their isactive flag, a faulty variant of the
\* select statement
ActiveAstromrefRows_AnyFlag(table, fcp) ==
    { i \in DOMAIN table : table[i].fcp = fcp }

\* rows the select statement of get_astromref matches
ActiveAstromrefRows(table, fcp) ==
    { i \in DOMAIN table : table[i].isactive = 1 /\ table[i].fcp = fcp }

\* the first row of the table whatever the where clause matched, a faulty
\* variant of the lookup
FetchOne_FirstRow(table, matching) ==
    IF table = <<>> THEN { <<>> } ELSE { <<table[1]>> }

\* cur.fetchone() on a select without ORDER BY: one matching row, whichever the
\* engine yields first, or None
FetchOne(table, matching) ==
    IF matching = {} THEN { <<>> } ELSE { <<table[i]>> : i \in matching }

-----------------------------------------------------------------------------
(* What the generate_* calls hand back *)

\* the value the caller receives: generate_combined_photref ends with 'return
\* photrefinfo' after the insert's try/except, whichever branch ran, and with
\* a bare return on the earlier errors; generate_astromref returns returnval,
\* the astromref dict after the commit and None after the rollback
GenerateReturn(op, status) ==
    IF status \in {"raise_header", "raise_copy", "raise_unbound"} THEN "raise"
    ELSE IF op = "build"
    THEN IF status \in {"ok", "err_insert"} THEN "photrefinfo" ELSE "None"
    ELSE IF status = "ok" THEN "astromref" ELSE "None"

-----------------------------------------------------------------------------
(* The registry specification *)

RegRet(op, status, fcp, t, makeactive, stamp, convs, inserted, ret) ==
    [op |-> op, status |-> status, fcp |-> fcp, type |-> t,
     makeactive |-> makeactive, stamp |-> stamp, convs |-> convs,
     inserted |-> inserted, ret |-> ret]

Init ==
    /\ photrefs = <<>>
    /\ astromrefs = <<>>
    /\ files \in { f \in [Paths -> {0, InputStamp}] :
                     \A p \in Paths \ InputPaths : f[p] = 0 }
    /\ cachedcomb = <<>>
    /\ nops = 0
    /\ regret = RegRet("none", "none", "", "", FALSE, 0, {}, FALSE, <<>>)
    /\ builders = <<>>
    /\ SelIdle
    /\ ArefIdle
    /\ WrkIdle

GenerateCombinedPhotref ==
    /\ nops < MaxOps
    /\ \E master \in Masters, t \in TryTypes, makeactive \in BOOLEAN :
         \E e \in GenerateCombinedPhotrefEnds(files, master, t, makeactive, nops + 1) :
            /\ files' = e.files
            /\ photrefs' =
                 IF e.inserted
                 THEN Append(photrefs,
                             PhotrefRow(FcpOf(master), t, makeactive, nops + 1, master))
                 ELSE photrefs
            /\ cachedcomb' =
                 IF e.cached THEN <<[reftype |-> t, stamp |-> nops + 1]>>
                 ELSE cachedcomb
            /\ regret' = RegRet("build", e.status, FcpOf(master), t, makeactive,
                                nops + 1, e.convs, e.inserted, <<>>)
    /\ nops' = nops + 1
    /\ UNCHANGED <<astromrefs, builders, selvars, arefvars, wrkvars>>

GenerateAstromref ==
    /\ nops < MaxOps
    /\ \E goodfits \in BOOLEAN, sel \in {<<>>} \cup {<<f>> : f \in AFrames},
          given \in BOOLEAN, makeactive \in BOOLEAN :
         \E e \in GenerateAstromrefEnds(files, goodfits, sel, given, nops + 1) :
            /\ files' = e.files
            /\ astromrefs' =
                 IF e.inserted
                 THEN Append(astromrefs,
                             AstromrefRow(FcpOf(sel[1]), makeactive, nops + 1, sel[1]))
                 ELSE astromrefs
            /\ regret' = RegRet("genaref", e.status,
                                IF sel = <<>> THEN "" ELSE FcpOf(sel[1]), "",
                                makeactive, nops + 1, {}, e.inserted, <<>>)
    /\ nops' = nops + 1
    /\ UNCHANGED <<photrefs, cachedcomb, builders, selvars, arefvars, wrkvars>>

\* rows is None makes zip() raise; get_combined_photref re-raises it
GetCombinedPhotref ==
    /\ \E fcp \in Fcps, t \in TryTypes :
         \E r \in FetchOne(photrefs, ActivePhotrefRows(photrefs, fcp, t)) :
            regret' = RegRet("getphotref", IF r = <<>> THEN "raise" ELSE "ok",
                             fcp, t, FALSE, nops, {}, FALSE, r)
    /\ UNCHANGED <<photrefs, astromrefs, files, cachedcomb, nops, builders,
                   selvars, arefvars, wrkvars>>

\* rows is None makes zip() raise; get_astromref returns None
GetAstromref ==
    /\ \E fcp \in Fcps :
         \E r \in FetchOne(astromrefs, ActiveAstromrefRows(astromrefs, fcp)) :
            regret' = RegRet("getaref", IF r = <<>> THEN "none" ELSE "ok",
                             fcp, "", FALSE, nops, {}, FALSE, r)
    /\ UNCHANGED <<photrefs, astromrefs, files, cachedcomb, nops, builders,
                   selvars, arefvars, wrkvars>>

Next ==
    \/ GenerateCombinedPhotref
    \/ GenerateAstromref
    \/ GetCombinedPhotref
    \/ GetAstromref

Spec == Init /\ [][Next]_vars

-----------------------------------------------------------------------------
(* Concurrent builders.  Each process runs generate_combined_photref on the *)
(* same reference area and the same refinfo database; a process is a call   *)
(* in two steps, the work up to the insert's parameters and the insert.     *)

\* the insert with a check that the key has no active row yet, a faulty
\* variant (the query has no such condition)
InsertPhotref_CompareAndSet(table, row) ==
    IF row.isactive = 1
       /\ \E i \in 1..Len(table) :
             /\ table[i].isactive = 1
             /\ table[i].fcp = row.fcp
             /\ table[i].photreftype = row.photreftype
    THEN table
    ELSE Append(table, row)

\* 'insert into photrefs (...) values (...)' and db.commit(): the row is
\* appended whatever rows the table holds
InsertPhotref(table, row) == Append(table, row)

InitRace ==
    /\ photrefs = <<>>
    /\ astromrefs = <<>>
    /\ files = [p \in Paths |-> IF p \in InputPaths THEN InputStamp ELSE 0]
    /\ cachedcomb = <<>>
    /\ nops = 0
    /\ regret = RegRet("none", "none", "", "", FALSE, 0, {}, FALSE, <<>>)
    /\ builders = [b \in 1..NBuilders |->
                      [pc |-> "start", status |-> "none", type |-> "",
                       makeactive |-> FALSE, stamp |-> 0]]
    /\ SelIdle
    /\ ArefIdle
    /\ WrkIdle

\* one process from its call to the construction of the insert's parameters,
\* time.time() included: the image steps, the cache file, the frame info of
\* the combined reference.  The registry is not read
BuilderBuild ==
    \E b \in 1..NBuilders :
       /\ builders[b].pc = "start"
       /\ \E t \in KnownTypes \cap TryTypes, makeactive \in BOOLEAN :
            \E e \in GenerateCombinedPhotrefEnds(files, "mA", t, makeactive,
                                                 nops + 1) :
               /\ e.status # "err_insert"
               /\ files' = e.files
               /\ cachedcomb' =
                    IF e.cached THEN <<[reftype |-> t, stamp |-> nops + 1]>>
                    ELSE cachedcomb
               /\ builders' =
                    [builders EXCEPT ![b] =
                        [pc |-> IF e.status = "ok" THEN "insert" ELSE "done",
                         status |-> IF e.status = "ok" THEN "built"
                                    ELSE e.status,
                         type |-> t, makeactive |-> makeactive,
                         stamp |-> nops + 1]]
       /\ nops' = nops + 1
       /\ UNCHANGED <<photrefs, astromrefs, regret, selvars, arefvars, wrkvars>>

\* the same process at sqlite3.connect, cur.execute(query, params) and
\* db.commit(), or the except branch with db.rollback()
BuilderInsert ==
    \E b \in 1..NBuilders :
       /\ builders[b].pc = "insert"
       /\ \E e \in StageInsert(builders[b], files, {}) :
            /\ photrefs' =
                 IF e.inserted
                 THEN InsertPhotref(photrefs,
                                    PhotrefRow(FcpOf("mA"), builders[b].type,
                                               builders[b].makeactive,
                                               builders[b].stamp, "mA"))
                 ELSE photrefs
            /\ builders' = [builders EXCEPT ![b].pc = "done",
                                            ![b].status = e.status]
       /\ UNCHANGED <<astromrefs, files, cachedcomb, nops, regret,
                      selvars, arefvars, wrkvars>>

NextRace ==
    \/ BuilderBuild
    \/ BuilderInsert

SpecRace == InitRace /\ [][NextRace]_vars

-----------------------------------------------------------------------------
(* Registry claims *)

PhotrefKeys == { <<fcp, t>> : fcp \in Fcps, t \in TryTypes }

\* the generate_* call counted last inserted the last row of the photrefs table
NewPhotrefRow ==
    /\ Len(photrefs) > 0
    /\ photrefs[Len(photrefs)].unixtime = nops

\* C1: after successful registrations with makeactive=True, every key that was
\* registered holds exactly one row with isactive = 1, in photrefs and in
\* astromrefs alike.
C1_OneActiveRowPerKey ==
    /\ \A k \in PhotrefKeys :
         (\E i \in DOMAIN photrefs :
             /\ photrefs[i].fcp = k[1] /\ photrefs[i].photreftype = k[2]
             /\ photrefs[i].isactive = 1)
         => Cardinality(ActivePhotrefRows(photrefs, k[1], k[2])) = 1
    /\ \A fcp \in Fcps :
         (\E i \in DOMAIN astromrefs :
             astromrefs[i].fcp = fcp /\ astromrefs[i].isactive = 1)
         => Cardinality(ActiveAstromrefRows(astromrefs, fcp)) = 1

\* C2: a newer active build of a key supersedes the earlier ones: the earlier
\* rows stay in the table with isactive = 0, and get_combined_photref returns
\* the row of the newest build.
C2_NewBuildSupersedes ==
    /\ \A i, j \in DOMAIN photrefs :
         (/\ i < j
          /\ photrefs[i].fcp = photrefs[j].fcp
          /\ photrefs[i].photreftype = photrefs[j].photreftype
          /\ photrefs[j].isactive = 1)
         => photrefs[i].isactive = 0
    /\ (regret.op = "getphotref" /\ regret.ret # <<>>)
         => \A i \in ActivePhotrefRows(photrefs, regret.fcp, regret.type) :
               photrefs[i].unixtime <= regret.ret[1].unixtime

\* C3: a photrefs row is inserted only by a build that found the master's
\* source list, the registration file, at least one convolved frame, the
\* combined frame, a known reference type with its field catalog and the
\* calibration photometry file; a build that ends at any earlier check
\* inserts no row.
C3_RowOnlyAfterArtifacts ==
    /\ NewPhotrefRow =>
         LET row == photrefs[Len(photrefs)] IN
         /\ Exists(files, FistarPath(row.convolvetarget))
         /\ Exists(files, row.convolveregpath)
         /\ Exists(files, row.framepath)
         /\ row.photreftype \in KnownTypes
         /\ Exists(files, FovcatPath(row.fcp, row.photreftype))
         /\ Exists(files, row.cmrawphotpath)
         /\ (regret.op = "build" => regret.convs # {})
    /\ (regret.op = "build" /\ regret.status # "ok") => ~NewPhotrefRow

C3_Witness ==
    /\ regret.op = "build" /\ regret.status = "ok"
    /\ NewPhotrefRow
    /\ \E i \in DOMAIN photrefs : i < Len(photrefs)

\* C4: a build that aborts leaves the registry as it was and does not touch
\* the files (combined frame, registration file, calibration photometry) that
\* active rows point to, for its own key and for every other key.
C4_AbortKeepsActiveRefs ==
    [][ (regret'.op = "build" /\ nops' = nops + 1 /\ regret'.status # "ok")
        => /\ photrefs' = photrefs
           /\ astromrefs' = astromrefs
           /\ \A i \in DOMAIN photrefs :
                photrefs[i].isactive = 1
                => /\ files'[photrefs[i].framepath] = files[photrefs[i].framepath]
                   /\ files'[photrefs[i].convolveregpath]
                        = files[photrefs[i].convolveregpath]
                   /\ files'[photrefs[i].cmrawphotpath]
                        = files[photrefs[i].cmrawphotpath] ]_vars

-----------------------------------------------------------------------------
(* Candidate selection: numpy helpers *)

\* np.nan
NaN == 0 - 1000000

\* np.fabs
Fabs(x) == IF x = NaN THEN NaN ELSE IF x < 0 THEN 0 - x ELSE x

\* a comparison in which NaN orders like a number, a faulty variant
Lt_NanCompares(a, b) == a < b

\* a < b on floats: any comparison with NaN is False
Lt(a, b) == a # NaN /\ b # NaN /\ a < b

Min2(a, b) == IF a < b THEN a ELSE b

\* how equal keys are ordered by the sort in use
TieBefore(i, j, tie) == IF tie = "stable" THEN i < j ELSE i > j

\* element i is placed before element j by np.argsort(vals) (NaN sorts last)
SortsBefore(vals, i, j, tie) ==
    IF vals[i] = NaN \/ vals[j] = NaN
    THEN \/ (vals[i] # NaN /\ vals[j] = NaN)
         \/ (vals[i] = NaN /\ vals[j] = NaN /\ TieBefore(i, j, tie))
    ELSE \/ vals[i] < vals[j]
         \/ (vals[i] = vals[j] /\ TieBefore(i, j, tie))

\* np.argsort(vals)
Argsort(vals, tie) ==
    [k \in 1..Len(vals) |->
        CHOOSE i \in 1..Len(vals) :
            Cardinality({j \in 1..Len(vals) : SortsBefore(vals, j, i, tie)}) = k - 1]

\* s[::-1]
Reversed(s) == [k \in 1..Len(s) |-> s[Len(s) + 1 - k]]

\* s[:n]
Take(s, n) == SubSeq(s, 1, Min2(n, Len(s)))

\* arr[idx] with an index array
TakeIdx(arr, idx) == [k \in 1..Len(idx) |-> arr[idx[k]]]

\* np.nanargmin: index of the first smallest non-NaN value; 0 stands for the
\* ValueError raised on an empty or all-NaN array
Nanargmin(vals) ==
    IF \A i \in 1..Len(vals) : vals[i] = NaN THEN 0
    ELSE CHOOSE i \in 1..Len(vals) :
            /\ vals[i] # NaN
            /\ \A j \in 1..Len(vals) :
                 vals[j] # NaN =>
                    (vals[i] < vals[j] \/ (vals[i] = vals[j] /\ i <= j))

-----------------------------------------------------------------------------
(* Candidate selection: frames, thresholds, cache keys *)

Frames == 1..NFrames

\* the frame lists callers pass as fitsfiles
FrameLists == { [k \in 1..NFrames |-> k] }

MinFramesSet == 1..MaxMinFrames

\* the keyword defaults of generate_photref_candidates_from_xtrns
DefaultThresholds ==
    [maxhourangle |-> 300, maxmoonphase |-> 2500, maxmoonelev |-> 0,
     maxzenithdist |-> 3000, maxbackgroundstdev |-> 1000,
     maxbackgroundmedian |-> 100000]

\* threshold settings callers pass: maxhourangle 3.01, 3.04 or 3.10
ThresholdSets ==
    { [DefaultThresholds EXCEPT !.maxhourangle = h] : h \in {301, 304, 310} }

\* '%.1f' % x for x >= 0 given in hundredths: x rounded to tenths
Fmt1(x) == (x + 5) \div 10

\* the string hashed into the cache key: repr(fitsfiles), '%i' % minframes and
\* '%.1f' of each threshold; md5 is taken to be injective on these strings
CacheKey(fl, mf, th) ==
    <<fl, mf, Fmt1(th.maxhourangle), Fmt1(th.maxmoonphase), Fmt1(th.maxmoonelev),
      Fmt1(th.maxzenithdist), Fmt1(th.maxbackgroundstdev),
      Fmt1(th.maxbackgroundmedian)>>

CacheKeys == { CacheKey(fl, mf, th) : fl \in FrameLists, mf \in MinFramesSet,
                                       th \in ThresholdSets }

\* what get_frame_info yields for one frame
FrameInfo(ha, mph, mel, zd, sbg, mbg, s, d) ==
    [hourangle |-> ha, moonphase |-> mph, moonelev |-> mel, zenithdist |-> zd,
     stdsrcbgv |-> sbg, medsrcbgv |-> mbg, medsval |-> s, meddval |-> d]

\* get_frame_info returned (frame, None): every array gets np.nan for the frame
NoFrameInfo == FrameInfo(NaN, NaN, NaN, NaN, NaN, NaN, NaN, NaN)

\* fitslist_frameinfo's outdict computed from disk, one entry per input frame
CollectFrameInfo(fl, disk) ==
    [k \in 1..Len(fl) |-> [frame |-> fl[k], m |-> disk[fl[k]]]]

-----------------------------------------------------------------------------
(* Candidate selection: the staged selection *)

\* haind & moonind & zenithind & backgroundstdevind for one frame
SelectInd(m, th) ==
    /\ Lt(Fabs(m.hourangle), th.maxhourangle)
    /\ (Lt(Fabs(m.moonphase), th.maxmoonphase) \/ Lt(m.moonelev, th.maxmoonelev))
    /\ Lt(m.zenithdist, th.maxzenithdist)
    /\ Lt(m.stdsrcbgv, th.maxbackgroundstdev)

\* final_bgvmed_ind & final_bgvstd_ind for one frame
FinalSelectorInd(m, th) ==
    /\ Lt(m.medsrcbgv, th.maxbackgroundmedian)
    /\ Lt(m.stdsrcbgv, th.maxbackgroundstdev)

\* frameinfo[...][selectind]
SelectedFrames(fi, th) ==
    LET Test(e) == SelectInd(e.m, th) IN SelectSeq(fi, Test)

\* (np.argsort(selected_medsvalue)) without the [::-1]
Stage1SortInd_Ascending(sel, tie) ==
    Argsort([k \in 1..Len(sel) |-> sel[k].m.medsval], tie)

\* (np.argsort(selected_medsvalue))[::-1]
Stage1SortInd(sel, tie) ==
    Reversed(Argsort([k \in 1..Len(sel) |-> sel[k].m.medsval], tie))

\* selected_*[stage1_sort_ind[:2*minframes]]
Stage1Frames(fi, mf, th, tie) ==
    LET sel == SelectedFrames(fi, th)
    IN  TakeIdx(sel, Take(Stage1SortInd(sel, tie), 2 * mf))

\* stage1_*[np.argsort(np.fabs(stage1_dvalue))]
Stage2Frames(fi, mf, th, tie) ==
    LET s1 == Stage1Frames(fi, mf, th, tie)
    IN  TakeIdx(s1, Argsort([k \in 1..Len(s1) |-> Fabs(s1[k].m.meddval)], tie))

\* stage2_*[final_selector_ind][:minframes]
FinalFrames(fi, mf, th, tie) ==
    LET Test(e) == FinalSelectorInd(e.m, th)
    IN  Take(SelectSeq(Stage2Frames(fi, mf, th, tie), Test), mf)

\* the master taken as the candidate with the largest S, a faulty variant
MasterIndex_Nanargmax(final) ==
    LET vals == [k \in 1..Len(final) |-> final[k].m.medsval]
    IN  IF \A i \in 1..Len(vals) : vals[i] = NaN THEN 0
        ELSE CHOOSE i \in 1..Len(vals) :
                /\ vals[i] # NaN
                /\ \A j \in 1..Len(vals) :
                     vals[j] # NaN =>
                        (vals[i] > vals[j] \/ (vals[i] = vals[j] /\ i <= j))

\* index into final_frames of the master: np.nanargmin(final_svalues)
MasterIndex(final) == Nanargmin([k \in 1..Len(final) |-> final[k].m.medsval])

-----------------------------------------------------------------------------
(* Candidate selection: the photrefinfo dict *)

PhotrefInfo(fl, key, mf, th, master, cands, jp, null) ==
    [framelist |-> fl, cachekey |-> key, minframes |-> mf, th |-> th,
     masterphotref |-> master, photrefs |-> cands, photrefjpegs |-> jp,
     null |-> null]

\* the dict returned by the except branch: master, photrefs, photrefjpegs None
\* and no 'minframes' key (0 here)
NullPhotrefInfo(fl, key, th) ==
    PhotrefInfo(fl, key, 0, th, <<>>, <<>>, <<>>, TRUE)

\* JPEG-PHOTREF-<basename>.jpg in the cache directory of key
JpegPath(key, frame) == <<key, frame>>

\* the dict built by the try branch from final_frames
ComputedPhotrefInfo(fl, key, mf, th, final) ==
    PhotrefInfo(fl, key, mf, th,
                <<final[MasterIndex(final)].frame>>,
                [k \in 1..Len(final) |-> final[k].frame],
                [k \in 1..Len(final) |-> JpegPath(key, final[k].frame)],
                FALSE)

SelRet(op, status, info, mf, th, force, removals, newmaster, repeat) ==
    [op |-> op, status |-> status, info |-> info, mf |-> mf, th |-> th,
     force |-> force, removals |-> removals, newmaster |-> newmaster,
     repeat |-> repeat]

-----------------------------------------------------------------------------
(* Candidate selection: generate_photref_candidates_from_xtrns *)

\* per-frame metrics the selection runs are started from: a good frame and a
\* frame at hour angle -3.02 h under a bright but set moon
SelProfiles ==
    { FrameInfo(100, 1000, 0 - 500, 2000, 500, 20000, 500, 1),
      FrameInfo(0 - 302, 9000, 0 - 500, 2000, 500, 20000, 700, 0 - 30) }

\* the frames whose quick-look JPEG fits_to_full_jpeg wrote before frame
\* number jf of final raised (jf = 0: none raised)
JpegsWritten(key, final, jf) ==
    { JpegPath(key, final[k].frame) :
        k \in { i \in 1..Len(final) : jf = 0 \/ i < jf } }

\* requests made of the selection in SpecSel; jf bounds the frame at which
\* fits_to_full_jpeg may raise
SelRequests ==
    [fl : FrameLists, mf : {MaxMinFrames}, th : ThresholdSets,
     force : BOOLEAN, jf : {1}]

\* a lookup that uses the cache file even when a refresh is forced, a faulty
\* variant
FitslistFrameinfoEnd_IgnoreForce(fl, force, cache, bad, disk) ==
    IF cache[fl] # <<>> \/ fl \in bad
    THEN IF fl \in bad THEN [status |-> "raise", cache |-> cache, bad |-> bad]
         ELSE [status |-> "cached", cache |-> cache, bad |-> bad]
    ELSE [status |-> "computed",
          cache |-> [cache EXCEPT ![fl] = <<CollectFrameInfo(fl, disk)>>],
          bad |-> bad \ {fl}]

\* fitslist_frameinfo(fl, forcecollectinfo=force): how the call ends and the
\* cache files after it; what it returns is the entry of its frame list. The
\* cache file is keyed by md5(repr(fitslist)); pickle.load of a file that
\* cannot be read raises
FitslistFrameinfoEnd(fl, force, cache, bad, disk) ==
    IF (cache[fl] # <<>> \/ fl \in bad) /\ ~force
    THEN IF fl \in bad THEN [status |-> "raise", cache |-> cache, bad |-> bad]
         ELSE [status |-> "cached", cache |-> cache, bad |-> bad]
    ELSE [status |-> "computed",
          cache |-> [cache EXCEPT ![fl] = <<CollectFrameInfo(fl, disk)>>],
          bad |-> bad \ {fl}]

\* one call generate_photref_candidates_from_xtrns(fl, minframes=mf, **th,
\* forcecollectinfo=force)
GenerateCall(r) ==
    LET fl  == r.fl
        mf  == r.mf
        th  == r.th
        \* fitslist_frameinfo(fitsfiles, forcecollectinfo=False)
        fe  == FitslistFrameinfoEnd(fl, FALSE, ficache, corrupt.fi, diskinfo)
        fi  == fe.cache[fl][1]
        key == CacheKey(fl, mf, th)
        null == NullPhotrefInfo(fl, key, th)
    IN  /\ nsel' = nsel + 1
        /\ UNCHANGED <<diskinfo, tiebreak>>
        /\ IF fe.status = "raise"
           THEN \* pickle.load of the frame-info cache file raised
                /\ selret' = SelRet("generate", "raise_frameinfo", null,
                                    mf, th, r.force, {}, <<>>, FALSE)
                /\ UNCHANGED <<ficache, selcache, corrupt, jpegs>>
           ELSE
           /\ ficache' = fe.cache
           /\ IF ~r.force /\ (selcache[key] # <<>> \/ key \in corrupt.sel)
              THEN \* cache directory and selection-info file exist: load
                   IF key \in corrupt.sel
                   THEN \* pickle.load raised
                        /\ selret' = SelRet("generate", "raise_selcache", null,
                                            mf, th, r.force, {}, <<>>, FALSE)
                        /\ corrupt' = [corrupt EXCEPT !.fi = fe.bad]
                        /\ UNCHANGED <<selcache, jpegs>>
                   ELSE /\ selret' = SelRet("generate", "cached",
                                            selcache[key][1],
                                            mf, th, r.force, {}, <<>>, FALSE)
                        /\ corrupt' = [corrupt EXCEPT !.fi = fe.bad]
                        /\ UNCHANGED <<selcache, jpegs>>
              ELSE \E final \in {FinalFrames(fi, mf, th, tiebreak)} :
              IF MasterIndex(final) = 0
              THEN \* np.nanargmin raised: nothing written
                   /\ selret' = SelRet("generate", "failed", null,
                                       mf, th, r.force, {}, <<>>, FALSE)
                   /\ corrupt' = [corrupt EXCEPT !.fi = fe.bad]
                   /\ UNCHANGED <<selcache, jpegs>>
              ELSE \E jf \in 0..Min2(r.jf, Len(final)) :
                   IF jf # 0
                   THEN \* fits_to_full_jpeg raised on frame jf
                        /\ jpegs' = jpegs \cup JpegsWritten(key, final, jf)
                        /\ selret' = SelRet("generate", "failed_jpeg", null,
                                            mf, th, r.force, {}, <<>>, FALSE)
                        /\ corrupt' = [corrupt EXCEPT !.fi = fe.bad]
                        /\ UNCHANGED selcache
                   ELSE /\ jpegs' = jpegs \cup JpegsWritten(key, final, 0)
                        /\ selcache' = [selcache EXCEPT ![key] =
                               <<ComputedPhotrefInfo(fl, key, mf, th, final)>>]
                        /\ corrupt' = [fi |-> fe.bad, sel |-> corrupt.sel \ {key}]
                        /\ selret' = SelRet("generate", "computed",
                               ComputedPhotrefInfo(fl, key, mf, th, final),
                               mf, th, r.force, {}, <<>>, FALSE)

GeneratePhotrefCandidates ==
    /\ nsel < MaxSelOps
    /\ \E r \in SelRequests : GenerateCall(r)
    /\ UNCHANGED <<regvars, arefvars, wrkvars>>

-----------------------------------------------------------------------------
(* Candidate selection: amend_candidate_photrefs *)

\* position of a frame's absolute path in sorted order: frames of the list lie
\* in night directories, the last frame of the list in the directory that
\* sorts first
FramePathKey(frame) ==
    IF frame = NFrames THEN frame ELSE NFrames + frame

\* position of a JPEG in sorted order: all JPEGs of a set lie in one cache
\* directory and sort by the frame's basename
JpegPathKey(jpeg) == jpeg[2]

\* sorted(photrefinfo['photrefs'][::])
SortedPhotrefs(lst) ==
    TakeIdx(lst, Argsort([k \in 1..Len(lst) |-> FramePathKey(lst[k])], "stable"))

\* sorted(photrefinfo['photrefjpegs'][::])
SortedJpegs(lst) ==
    TakeIdx(lst, Argsort([k \in 1..Len(lst) |-> JpegPathKey(lst[k])], "stable"))

\* lst.remove(x): drops the first occurrence of x
ListRemove(lst, x) ==
    LET i == CHOOSE k \in 1..Len(lst) :
                lst[k] = x /\ \A j \in 1..(k - 1) : lst[j] # x
    IN  [k \in 1..(Len(lst) - 1) |-> IF k < i THEN lst[k] ELSE lst[k + 1]]

\* the review loop over zip(initialphotrefs, initialphotrefjpegs) from pair k
\* on; X are the frames the reviewer answers 'x' for
RECURSIVE AmendLoop(_, _, _, _, _)
AmendLoop(fr, jp, k, X, st) ==
    IF k > Min2(Len(fr), Len(jp)) THEN st
    ELSE IF fr[k] \notin X THEN AmendLoop(fr, jp, k + 1, X, st)
    ELSE LET removed == [st EXCEPT
                            !.photrefs = ListRemove(st.photrefs, fr[k]),
                            !.photrefjpegs = ListRemove(st.photrefjpegs, jp[k])]
         IN  IF jp[k] \notin st.disk
             THEN [removed EXCEPT !.raised = TRUE]      \* os.remove raised
             ELSE AmendLoop(fr, jp, k + 1, X,
                            [removed EXCEPT !.disk = st.disk \ {jp[k]}])

\* os.path.exists of what the reviewer types at the master prompt: the frames
\* of the list exist, 0 stands for a path that does not
PathExists(path) == path \in Frames

\* the master after the prompt loop: the last existing path typed, if any
AmendedMaster(master, newmaster) ==
    IF newmaster # <<>> /\ PathExists(newmaster[1]) THEN newmaster ELSE master

\* the cache key taken from the default thresholds, used by a faulty variant
AmendCacheKey_FromDefaults(info) ==
    CacheKey(info.framelist, info.minframes, DefaultThresholds)

\* cachekey = photrefinfo['cachekey']
AmendCacheKey(info) == info.cachekey

\* answers a reviewer gives: frames to reject, and what is typed for the master
AmendAnswers ==
    [removals : {{}, {1}, Frames}, newmaster : {<<>>, <<0>>, <<1>>}]

\* one call amend_candidate_photrefs(photrefinfo) on the dict the caller got
\* from the previous call
AmendCall(a) ==
    LET info == selret.info
        repeat == /\ selret.op = "amend" /\ selret.status = "amended"
                  /\ selret.removals = a.removals
                  /\ selret.newmaster = a.newmaster
    IN  /\ nsel' = nsel + 1
        /\ UNCHANGED <<diskinfo, ficache, tiebreak>>
        /\ IF info.null
           THEN \* sorted(None[::]) raises TypeError
                /\ selret' = SelRet("amend", "raise", info, selret.mf, selret.th,
                                    FALSE, a.removals, a.newmaster, FALSE)
                /\ UNCHANGED <<selcache, corrupt, jpegs>>
           ELSE \E st \in {AmendLoop(SortedPhotrefs(info.photrefs),
                                      SortedJpegs(info.photrefjpegs),
                                      1, a.removals,
                                      [photrefs |-> info.photrefs,
                                       photrefjpegs |-> info.photrefjpegs,
                                       disk |-> jpegs, raised |-> FALSE])} :
                LET amended == [info EXCEPT
                                   !.photrefs = st.photrefs,
                                   !.photrefjpegs = st.photrefjpegs,
                                   !.masterphotref =
                                       IF st.raised THEN @
                                       ELSE AmendedMaster(@, a.newmaster)]
                IN  /\ jpegs' = st.disk
                    /\ selret' = SelRet("amend",
                                        IF st.raised THEN "raise" ELSE "amended",
                                        amended, selret.mf, selret.th,
                                        FALSE, a.removals, a.newmaster, repeat)
                    /\ IF st.raised THEN UNCHANGED <<selcache, corrupt>>
                       ELSE /\ selcache' = [selcache EXCEPT
                                               ![AmendCacheKey(info)] = <<amended>>]
                            /\ corrupt' = [corrupt EXCEPT
                                               !.sel = @ \ {AmendCacheKey(info)}]

AmendCandidatePhotrefs ==
    /\ nsel < MaxSelOps
    /\ selret.op # "none"
    /\ \E a \in AmendAnswers : AmendCall(a)
    /\ UNCHANGED <<regvars, arefvars, wrkvars>>

-----------------------------------------------------------------------------
(* Candidate selection with its caches: SpecSel *)

NoCall ==
    SelRet("none", "none",
           NullPhotrefInfo(<<>>, <<>>, DefaultThresholds), 0,
           DefaultThresholds, FALSE, {}, <<>>, FALSE)

InitSelCommon ==
    /\ tiebreak \in {"stable", "reversed"}
    /\ ficache = [fl \in FrameLists |-> <<>>]
    /\ selcache = [key \in CacheKeys |-> <<>>]
    /\ corrupt = [fi |-> {}, sel |-> {}]
    /\ jpegs = {}
    /\ nsel = 0
    /\ selret = NoCall
    /\ RegIdle /\ ArefIdle /\ WrkIdle

InitSel ==
    /\ diskinfo \in [Frames -> SelProfiles]
    /\ InitSelCommon

NextSel ==
    \/ GeneratePhotrefCandidates
    \/ AmendCandidatePhotrefs

SpecSel == InitSel /\ [][NextSel]_vars

-----------------------------------------------------------------------------
(* The frame-info and selection caches: SpecCache *)

\* frame lists with a cache file of their own: repr() of a list in another
\* order is another string
CacheFrameLists == FrameLists \cup { [k \in 1..NFrames |-> NFrames + 1 - k] }

\* requests made of the selection in SpecCache: two threshold settings with
\* cache keys of their own
CacheRequests ==
    [fl : FrameLists, mf : {MaxMinFrames},
     th : { t \in ThresholdSets : t.maxhourangle \in {301, 310} },
     force : BOOLEAN, jf : {0}]

\* a direct call fitslist_frameinfo(fl, forcecollectinfo=force)
FitslistFrameinfo ==
    /\ nsel < MaxCacheOps
    /\ \E fl \in CacheFrameLists, force \in BOOLEAN :
         LET fe == FitslistFrameinfoEnd(fl, force, ficache, corrupt.fi, diskinfo)
         IN  /\ ficache' = fe.cache
             /\ corrupt' = [corrupt EXCEPT !.fi = fe.bad]
             /\ selret' = SelRet("frameinfo", fe.status,
                                 NullPhotrefInfo(fl, <<>>, DefaultThresholds),
                                 0, DefaultThresholds, force, {}, <<>>, FALSE)
    /\ nsel' = nsel + 1
    /\ UNCHANGED <<diskinfo, selcache, jpegs, tiebreak, regvars, arefvars, wrkvars>>

\* a frame is reduced again: get_frame_info reads other values from its
\* sidecar files from now on
SidecarsRewritten ==
    /\ nsel < MaxCacheOps
    /\ \E f \in {1}, p \in SelProfiles :
         /\ p # diskinfo[f]
         /\ diskinfo' = [diskinfo EXCEPT ![f] = p]
    /\ UNCHANGED <<ficache, selcache, corrupt, jpegs, tiebreak, nsel, selret,
                   regvars, arefvars, wrkvars>>

\* the caches start empty, but for at most one file left unreadable by an
\* interrupted run
InitCache ==
    /\ diskinfo \in [Frames -> SelProfiles]
    /\ \A f \in Frames : diskinfo[f] = diskinfo[1]
    /\ tiebreak = "stable"
    /\ ficache = [fl \in CacheFrameLists |-> <<>>]
    /\ selcache = [key \in CacheKeys |-> <<>>]
    /\ corrupt \in { [fi |-> {}, sel |-> {}] }
                   \cup { [fi |-> {fl}, sel |-> {}] : fl \in FrameLists }
                   \cup { [fi |-> {}, sel |-> {CacheKey(r.fl, r.mf, r.th)}] :
                            r \in CacheRequests }
    /\ jpegs = {}
    /\ nsel = 0
    /\ selret = NoCall
    /\ RegIdle /\ ArefIdle /\ WrkIdle

GenerateOnCaches ==
    /\ nsel < MaxCacheOps
    /\ \E r \in CacheRequests : GenerateCall(r)
    /\ UNCHANGED <<regvars, arefvars, wrkvars>>

NextCache ==
    \/ FitslistFrameinfo
    \/ SidecarsRewritten
    \/ GenerateOnCaches

SpecCache == InitCache /\ [][NextCache]_vars

-----------------------------------------------------------------------------
(* Candidate selection as a function of its inputs: SpecSelPure *)

\* per-frame metrics the selection is applied to: frames passing every
\* threshold with equal and unequal S and |D|, a frame at hour angle -3.02 h,
\* a frame passing the first filter but over the background median limit, a
\* frame too close to the horizon, and a frame without sidecar files
PureProfiles ==
    { FrameInfo(100, 1000, 0 - 500, 2000, 500, 20000, 500, 1),
      FrameInfo(100, 1000, 0 - 500, 2000, 500, 20000, 700, 0 - 30),
      FrameInfo(100, 1000, 1500, 2000, 500, 20000, 600, 2),
      FrameInfo(100, 9000, 0 - 500, 2000, 500, 20000, 500, 0 - 1),
      FrameInfo(0 - 302, 1000, 0 - 500, 2000, 500, 20000, 600, 0 - 30),
      FrameInfo(100, 1000, 0 - 500, 2000, 500, 150000, 700, 1),
      FrameInfo(100, 1000, 0 - 500, 3500, 500, 20000, 700, 1),
      NoFrameInfo }

\* requests made of the selection in SpecSelPure: nothing cached, JPEGs written
PureRequests ==
    [fl : FrameLists, mf : MinFramesSet, th : ThresholdSets,
     force : {TRUE}, jf : {0}]

InitSelPure ==
    /\ diskinfo \in [Frames -> PureProfiles]
    /\ InitSelCommon

SelectCandidates ==
    /\ nsel = 0
    /\ \E r \in PureRequests : GenerateCall(r)
    /\ UNCHANGED <<regvars, arefvars, wrkvars>>

NextSelPure == SelectCandidates

SpecSelPure == InitSelPure /\ [][NextSelPure]_vars

-----------------------------------------------------------------------------
(* Candidate selection: claims *)

Range(seq) == { seq[k] : k \in 1..Len(seq) }

\* the last call was a selection that returned candidates
ReturnedCandidates ==
    selret.op = "generate" /\ selret.status \in {"cached", "computed"}

\* the thresholds of the spec, stated on the metrics of one frame
MeetsThresholds(m, th) ==
    /\ m.hourangle # NaN
    /\ Fabs(m.hourangle) < th.maxhourangle
    /\ (m.moonphase < th.maxmoonphase \/ m.moonelev < th.maxmoonelev)
    /\ m.zenithdist < th.maxzenithdist
    /\ m.stdsrcbgv < th.maxbackgroundstdev
    /\ m.medsrcbgv < th.maxbackgroundmedian

\* C6: the candidate list returned by generate_photref_candidates_from_xtrns,
\* computed or served from cache, has at most minframes entries and every
\* candidate meets all thresholds configured in that call.
C6_CandidatesMeetThresholds ==
    ReturnedCandidates =>
        /\ Len(selret.info.photrefs) <= selret.mf
        /\ \A f \in Range(selret.info.photrefs) :
              MeetsThresholds(diskinfo[f], selret.th)

\* C7: when a non-empty candidate set is computed, the master is one of the
\* final candidates and its S is at most the S of every final candidate.
C7_MasterHasMinimumS ==
    (selret.op = "generate" /\ selret.status = "computed") =>
        /\ Len(selret.info.masterphotref) = 1
        /\ selret.info.masterphotref[1] \in Range(selret.info.photrefs)
        /\ \A f \in Range(selret.info.photrefs) :
              diskinfo[selret.info.masterphotref[1]].medsval <= diskinfo[f].medsval

C7_Witness ==
    /\ selret.op = "generate" /\ selret.status = "computed"
    /\ Len(selret.info.photrefs) >= 2
    /\ selret.info.masterphotref[1] # selret.info.photrefs[1]
    /\ \E f \in Range(selret.info.photrefs) :
          diskinfo[selret.info.masterphotref[1]].medsval < diskinfo[f].medsval

\* the first filter of the reference algorithm
RefSurvives(m, th) ==
    /\ m.hourangle # NaN
    /\ Fabs(m.hourangle) < th.maxhourangle
    /\ (Fabs(m.moonphase) < th.maxmoonphase \/ m.moonelev < th.maxmoonelev)
    /\ m.zenithdist < th.maxzenithdist
    /\ m.stdsrcbgv < th.maxbackgroundstdev

\* the background filter of the reference algorithm
RefQualifies(m, th) ==
    m.medsrcbgv < th.maxbackgroundmedian /\ m.stdsrcbgv < th.maxbackgroundstdev

\* cands is a result of the reference staged algorithm for minframes mf and
\* thresholds th, whichever way equal S or equal |D| are ordered
IsReferenceSelection(cands, mf, th) ==
    LET surv == { f \in Frames : RefSurvives(diskinfo[f], th) }
    IN  \E top \in SUBSET surv :
          /\ Cardinality(top) = Min2(2 * mf, Cardinality(surv))
          /\ \A i \in top : \A j \in surv \ top :
                diskinfo[i].medsval >= diskinfo[j].medsval
          /\ LET qual == { f \in top : RefQualifies(diskinfo[f], th) }
             IN  /\ Range(cands) \subseteq qual
                 /\ Len(cands) = Min2(mf, Cardinality(qual))
                 /\ \A a, b \in 1..Len(cands) :
                       a < b => /\ cands[a] # cands[b]
                                /\ Fabs(diskinfo[cands[a]].meddval)
                                     <= Fabs(diskinfo[cands[b]].meddval)
                 /\ \A i \in Range(cands) : \A j \in qual \ Range(cands) :
                       Fabs(diskinfo[i].meddval) <= Fabs(diskinfo[j].meddval)

\* the worked example: S = [5, 7, 6], D = [0.01, -0.3, 0.02], every threshold
\* passed, minframes = 2
WorkedExample ==
    /\ selret.mf = 2
    /\ \A f \in Frames : MeetsThresholds(diskinfo[f], selret.th)
    /\ diskinfo[1].medsval = 500 /\ diskinfo[1].meddval = 1
    /\ diskinfo[2].medsval = 700 /\ diskinfo[2].meddval = 0 - 30
    /\ diskinfo[3].medsval = 600 /\ diskinfo[3].meddval = 2
    /\ \A f \in Frames : f > 3 => diskinfo[f] = NoFrameInfo

ComputedCandidates(info) ==
    Range([k \in 1..Len(FinalFrames(ficache[info.framelist][1], info.minframes,
                                    info.th, tiebreak)) |->
             FinalFrames(ficache[info.framelist][1], info.minframes,
                         info.th, tiebreak)[k].frame])

\* C9: amend_candidate_photrefs is idempotent and in place: the same removals
\* and master replacement applied again to the result of an amendment change
\* neither the candidate list, the quick-look list, the master nor the cache
\* entry, and every amendment writes its entry under the cache key the set
\* had before.
C9_AmendIdempotentInPlace ==
    [][ (selret'.op = "amend" /\ selret'.status = "amended" /\ nsel' = nsel + 1) =>
          /\ selret'.info.cachekey = selret.info.cachekey
          /\ selcache'[selret.info.cachekey] = <<selret'.info>>
          /\ \A key \in CacheKeys \ {selret.info.cachekey} :
                selcache'[key] = selcache[key]
          /\ selret'.repeat =>
                /\ selret'.info = selret.info
                /\ selcache' = selcache ]_vars

C9_Witness ==
    /\ selret.op = "amend" /\ selret.status = "amended" /\ selret.repeat
    /\ selret.newmaster # <<>>
    /\ \E f \in selret.removals :
          /\ f \in ComputedCandidates(selret.info)
          /\ f \notin Range(selret.info.photrefs)
    /\ selret.info.photrefs # <<>>

-----------------------------------------------------------------------------
(* Astrometric reference ranking: select_astromref_frame (imagesubphot.py) *)

\* what the frame loop finds per frame of goodframes: median S, median D,
\* median background, number of good detections, and whether the frame is
\* skipped because its photometry is binary and no reader is installed
ArefProfiles ==
    [s : {1, 2}, d : {0 - 1, 2}, bg : {1, 2}, ndet : {1, 2}, skip : {FALSE}]
      \cup {[s |-> 2, d |-> 2, bg |-> 2, ndet |-> 2, skip |-> TRUE]}

\* the frames whose metrics are appended: the loop continues past the others
MeasuredFrames(good) ==
    LET Test(e) == ~e.skip IN SelectSeq(good, Test)

\* np.argsort(median_sval)[::-1][:200]
MedianSvalInd(meas, tie) ==
    Take(Reversed(Argsort([k \in 1..Len(meas) |-> meas[k].s], tie)), TopK)

\* np.argsort(np.fabs(median_dval))[:200]
MedianDvalInd(meas, tie) ==
    Take(Argsort([k \in 1..Len(meas) |-> Fabs(meas[k].d)], tie), TopK)

\* np.argsort(median_background)[:200]
MedianBackgroundInd(meas, tie) ==
    Take(Argsort([k \in 1..Len(meas) |-> meas[k].bg], tie), TopK)

\* np.argsort(good_detections)[::-1][:200]
GoodDetectionsInd(meas, tie) ==
    Take(Reversed(Argsort([k \in 1..Len(meas) |-> meas[k].ndet], tie)), TopK)

\* the elements of an index array
IndSet(ind) == { ind[k] : k \in 1..Len(ind) }

\* np.intersect1d(a, b, assume_unique=True): the common indices, ascending;
\* kept here as a set, its element [0] being the smallest
Intersect1d(a, b) == a \cap b

\* arr[0] of a sorted index array
FirstOf(indset) == CHOOSE i \in indset : \A j \in indset : i <= j

SdInd(meas, tie) ==
    Intersect1d(IndSet(MedianSvalInd(meas, tie)), IndSet(MedianDvalInd(meas, tie)))

BestFrameInd(meas, tie) ==
    Intersect1d(SdInd(meas, tie),
                Intersect1d(IndSet(MedianBackgroundInd(meas, tie)),
                            IndSet(GoodDetectionsInd(meas, tie))))

SdndetInd(meas, tie) ==
    Intersect1d(SdInd(meas, tie), IndSet(GoodDetectionsInd(meas, tie)))

\* the if / elif chain: which rule fires and which index of goodframes is
\* returned (0 with rule "none": the function returns None)
SelectedReference(good, tie) ==
    LET meas == MeasuredFrames(good)
    IN  IF BestFrameInd(meas, tie) # {}
        THEN [rule |-> "best", ind |-> FirstOf(BestFrameInd(meas, tie))]
        ELSE IF SdndetInd(meas, tie) # {}
        THEN [rule |-> "sdndet", ind |-> FirstOf(SdndetInd(meas, tie))]
        ELSE IF SdInd(meas, tie) # {}
        THEN [rule |-> "sd", ind |-> FirstOf(SdInd(meas, tie))]
        ELSE IF Len(MedianSvalInd(meas, tie)) > 0
        THEN [rule |-> "s", ind |-> MedianSvalInd(meas, tie)[1]]
        ELSE [rule |-> "none", ind |-> 0]

InitAref ==
    /\ arefin \in [1..NAref -> ArefProfiles] \cup {<<>>}
    /\ arefout = <<>>
    /\ tiebreak \in {"stable", "reversed"}
    /\ diskinfo = <<>> /\ ficache = <<>> /\ selcache = <<>> /\ jpegs = {}
    /\ corrupt = <<>>
    /\ nsel = 0 /\ selret = <<>>
    /\ RegIdle /\ WrkIdle

SelectAstromrefFrame ==
    /\ Len(arefout) < MaxArefRuns
    /\ arefout' = Append(arefout, SelectedReference(arefin, tiebreak))
    /\ UNCHANGED <<arefin, regvars, selvars, wrkvars>>

NextAref == SelectAstromrefFrame

SpecAref == InitAref /\ [][NextAref]_vars

-----------------------------------------------------------------------------
(* Astrometric reference ranking: claims *)

\* position in goodframes of the frame whose metrics sit at index i
MeasuredAt(good, i) ==
    CHOOSE k \in 1..Len(good) :
        /\ ~good[k].skip
        /\ Cardinality({j \in 1..k : ~good[j].skip}) = i

\* the frames of an index set of the metric arrays
FramesOf(good, indset) == { MeasuredAt(good, i) : i \in indset }

\* the first non-empty set in the order S,|D|,background,detections;
\* S,|D|,background; S,|D|; S
FirstNonEmptyByBackground(meas, tie) ==
    LET S == IndSet(MedianSvalInd(meas, tie))
        D == IndSet(MedianDvalInd(meas, tie))
        B == IndSet(MedianBackgroundInd(meas, tie))
        N == IndSet(GoodDetectionsInd(meas, tie))
    IN  IF S \cap D \cap B \cap N # {} THEN S \cap D \cap B \cap N
        ELSE IF S \cap D \cap B # {} THEN S \cap D \cap B
        ELSE IF S \cap D # {} THEN S \cap D
        ELSE S

\* C10: select_astromref_frame returns a frame from the first non-empty set
\* in this order: the intersection of all four top-K sets (S, |D|, background,
\* detection count); without the detection count (S, |D|, background);
\* without the background (S, |D|); S only.
C10_RelaxationOrder ==
    \A k \in 1..Len(arefout) :
        LET first == FirstNonEmptyByBackground(MeasuredFrames(arefin), tiebreak)
        IN  IF first = {} THEN arefout[k].rule = "none"
            ELSE /\ arefout[k].rule # "none"
                 /\ arefout[k].ind \in FramesOf(arefin, first)

\* the intersection the rule that fired took its frame from
ChosenIntersection(rule, meas, tie) ==
    IF rule = "best" THEN BestFrameInd(meas, tie)
    ELSE IF rule = "sdndet" THEN SdndetInd(meas, tie)
    ELSE SdInd(meas, tie)

\* C11: select_astromref_frame is deterministic: runs over the same frame list
\* with the same metrics return the same frame, and when the frame comes from
\* an intersection it is the first frame of that intersection in array order,
\* whatever its rank in S, D, background or detection count.
C11_DeterministicFirstInOrder ==
    /\ \A j, k \in 1..Len(arefout) : arefout[j] = arefout[k]
    /\ \A k \in 1..Len(arefout) :
          arefout[k].rule \in {"best", "sdndet", "sd"} =>
              arefout[k].ind =
                  FirstOf(FramesOf(arefin,
                                   ChosenIntersection(arefout[k].rule,
                                                      MeasuredFrames(arefin),
                                                      tiebreak)))

-----------------------------------------------------------------------------
(* Shift to the astrometric reference: frames_astromref_worker *)

\* the frames of a batch
WFrames == 1..NTasks

\* (field, projectid, ccd) of a batch frame: the first frame is of key "A",
\* the others of key "B"
WFcp(frame) == IF frame = 1 THEN "A" ELSE "B"

\* the files named after a frame that lie in the frame's directory
Siblings == {"fits", "fistar", "fiphot", "itrans", "xtrns", "xysdk"}

\* a reduced frame with its source list and photometry
ReducedFrame == {"fits", "fistar", "fiphot"}

\* one task's end: what the worker returned for the frame (ret = <<>> is None)
\* and the frame's files in its directory and in badframes afterwards
WorkerEnd(status, ret, dir, bad) ==
    [status |-> status, ret |-> ret, dir |-> dir, bad |-> bad]

\* check_frame_warping, part of imageutils: the frame is fine, is warped, or
\* the check raises
WarpOutcomes == {"notwarped", "warped", "raise"}

\* for x in badframeglob: shutil.move(x, badframesdir); the glob matches every
\* file of the frame's directory that carries the frame's base name, in no
\* particular order; shutil.move raises when badframes already holds a file of
\* that name, after the files globbed before it were moved
QuarantineEnds(dir, bad) ==
    LET globbed == dir \cap Siblings
    IN  IF globbed \cap bad = {}
        THEN { WorkerEnd("warped", <<>>, dir \ globbed, bad \cup globbed) }
        ELSE { WorkerEnd("raise_move", <<>>, dir \ moved, bad \cup moved) :
                 moved \in SUBSET (globbed \ bad) }

\* the warp check on the shifted frame, skipped by a faulty variant
StageWarpcheck_Off(dir, bad, warpcheck) ==
    { WorkerEnd("ok", <<"xtrns">>, dir, bad) }

\* if warpcheck: check_frame_warping(shifted_frame, **warpcheckkwargs)
StageWarpcheck(dir, bad, warpcheck) ==
    IF ~warpcheck THEN { WorkerEnd("ok", <<"xtrns">>, dir, bad) }
    ELSE UNION { IF w = "notwarped" THEN { WorkerEnd("ok", <<"xtrns">>, dir, bad) }
                 ELSE IF w = "raise"
                 THEN { WorkerEnd("raise_warp", <<>>, dir, bad) }
                 ELSE QuarantineEnds(dir, bad) : w \in WarpOutcomes }

\* a failed transform that leaves its output in place, a faulty variant
StageTransform_KeepsOutput(dir, bad, warpcheck) ==
    IF "itrans" \notin dir
    THEN { WorkerEnd("err_shift", <<>>, dir, bad) }
    ELSE UNION { IF o = "ok" THEN StageWarpcheck(dir \cup {"xtrns"}, bad, warpcheck)
                 ELSE { WorkerEnd("err_shift", <<>>, dir, bad) } :
                 o \in ToolOutcomes }

\* ism.frame_to_astromref_worker((frame, None, None)): reads the .itrans
\* beside the frame, writes the -xtrns.fits beside the frame; a failed
\* transform removes its output
StageTransform(dir, bad, warpcheck) ==
    IF "itrans" \notin dir
    THEN { WorkerEnd("err_shift", <<>>, dir, bad) }
    ELSE UNION { IF o = "ok" THEN StageWarpcheck(dir \cup {"xtrns"}, bad, warpcheck)
                 ELSE { WorkerEnd("err_shift", <<>>, dir \ {"xtrns"}, bad) } :
                 o \in ToolOutcomes }

\* where ism.astromref_shift_worker writes the .itrans: beside the frame when
\* outdir is unset or is the frame's directory, into outdir otherwise
ItransWritten(outdir) == IF outdir = "other" THEN "itrans_outdir" ELSE "itrans"

\* ism.astromref_shift_worker((framefistar, areffistar, outdir)); a failed
\* calculation removes its output
StageShiftCalc(dir, bad, warpcheck, outdir) ==
    UNION { IF o = "ok"
            THEN StageTransform(dir \cup {ItransWritten(outdir)}, bad, warpcheck)
            ELSE { WorkerEnd("err_shiftcalc", <<>>,
                             dir \ {ItransWritten(outdir)}, bad) } :
            o \in ToolOutcomes }

\* identity resolution on a header without 'object' or 'projid':
\* get_header_keyword_list lies in imageutils, outside the sources at hand; by
\* the resolver's contract the lookup fails
MissingHeaderKeys == "raise"

\* get_header_keyword_list and FRAMEREGEX on the frame: the header keys and
\* the file name give field, ccd and projectid, or the lookup raises (felems[0]
\* on a name FRAMEREGEX does not match, a header that cannot be read)
IdentityOutcomes == {"ok", "raise", MissingHeaderKeys}

\* frames_astromref_worker((frame, outdir, refinfo, warpcheck, kwargs)): the
\* set of ways the call can end
FramesAstromrefWorkerEnds(frame, dir, bad, table, warpcheck, outdir) ==
    UNION { IF i # "ok"
            THEN \* caught by the worker's except branch
                 { WorkerEnd("raise_ident", <<>>, dir, bad) }
            ELSE IF "fistar" \notin dir
            THEN { WorkerEnd("err_ident", <<>>, dir, bad) }
            ELSE UNION { IF r = <<>>
                         THEN \* get_astromref returned None:
                              \* framearef['framepath'] raises
                              { WorkerEnd("raise_noaref", <<>>, dir, bad) }
                         ELSE StageShiftCalc(dir, bad, warpcheck, outdir) :
                         r \in FetchOne(table,
                                        ActiveAstromrefRows(table, WFcp(frame))) } :
            i \in IdentityOutcomes }

\* a frame of fitsfiles that does not exist is given to no worker
NotSubmitted(dir, bad) == WorkerEnd("notsubmitted", <<>>, dir, bad)

\* pool.map over the tasks: each worker touches only the files of its own
\* frame, so the batch ends in one end per frame; ends(f) is the set of ends
\* of frame f
RECURSIVE BatchEnds(_, _)
BatchEnds(n, ends) ==
    IF n = 0 THEN { <<>> }
    ELSE { Append(b, e) : b \in BatchEnds(n - 1, ends), e \in ends[n] }

\* what a driver call did: the option it ran with (warpcheck, outdir or
\* photreftype), the frames it made tasks of, whether it raised, and the
\* dict it returned
WrkRet(op, raised, warpcheck, option, tasks, results) ==
    [op |-> op, raised |-> raised, warpcheck |-> warpcheck, option |-> option,
     tasks |-> tasks, results |-> results]

NoDriverCall == WrkRet("none", FALSE, FALSE, "unset", {}, <<>>)

\* framelist_make_xtrnsfits(fitsfiles, outdir, refinfo, warpcheck, ...) over
\* all frames of the batch
FramelistMakeXtrnsfits ==
    /\ wret.op = "none"
    /\ \E warpcheck \in BOOLEAN, outdir \in {"unset", "same", "other"} :
         \E b \in BatchEnds(NTasks,
                  [f \in WFrames |->
                      IF "fits" \notin wfs[f]
                      THEN { NotSubmitted(wfs[f], wbad[f]) }
                      ELSE FramesAstromrefWorkerEnds(f, wfs[f], wbad[f],
                                                     astromrefs, warpcheck,
                                                     outdir)]) :
            /\ wfs' = [f \in WFrames |-> b[f].dir]
            /\ wbad' = [f \in WFrames |-> b[f].bad]
            /\ wret' = WrkRet("make_xtrnsfits", FALSE, warpcheck, outdir,
                              {f \in WFrames : "fits" \in wfs[f]},
                              [f \in WFrames |->
                                  [status |-> b[f].status, ret |-> b[f].ret]])
    /\ UNCHANGED <<regvars, selvars, arefvars, ismphot, dbret>>

\* ism.xysdk_coeffs_worker((fistar, fistarglob)): grtrans writes the .xysdk
\* beside the source list; a failed run removes its output
XysdkCoeffsWorkerEnds(dir, bad) ==
    { IF o = "ok" THEN WorkerEnd("ok", <<"xysdk">>, dir \cup {"xysdk"}, bad)
      ELSE WorkerEnd("err_xysdk", <<>>, dir \ {"xysdk"}, bad) :
      o \in ToolOutcomes }

\* ism.get_smoothed_xysdk_coeffs(fistardir) over the source lists of the batch
GetSmoothedXysdkCoeffs ==
    /\ wret.op = "none"
    /\ \E b \in BatchEnds(NTasks,
                [f \in WFrames |->
                    IF "fistar" \notin wfs[f]
                    THEN { NotSubmitted(wfs[f], wbad[f]) }
                    ELSE XysdkCoeffsWorkerEnds(wfs[f], wbad[f])]) :
          /\ wfs' = [f \in WFrames |-> b[f].dir]
          /\ wret' = WrkRet("xysdk", FALSE, FALSE, "unset",
                            {f \in WFrames : "fistar" \in wfs[f]},
                            [f \in WFrames |->
                                [status |-> b[f].status, ret |-> b[f].ret]])
    /\ UNCHANGED <<regvars, selvars, arefvars, wbad, ismphot, dbret>>

\* an element of results counted as matching by a filter that takes a frame
\* without identity for a match, a faulty variant
IsMatchingFrame_NoneMatches(elem, fcp) == elem.ret = <<>> \/ elem.ret[1] = fcp

\* elem[1] and elem[1][0] == field and elem[1][1] == projectid and
\* elem[1][2] == ccd
IsMatchingFrame(elem, fcp) == elem.ret # <<>> /\ elem.ret[1] = fcp

\* find_original_fits_fieldprojectidccd(dirlist, field, projectid, ccd): the
\* glob finds the frames present, fits_fieldprojectidccd_worker gives
\* (frame, (field, projectid, ccd)) or (frame, None) for each, and the frames
\* of the requested key are the matching frames
FindOriginalFitsFieldprojectidccd ==
    /\ wret.op = "none"
    /\ \E fcp \in {"A", "B"} :
         \E b \in BatchEnds(NTasks,
                  [f \in WFrames |->
                      IF "fits" \notin wfs[f]
                      THEN { [status |-> "notsubmitted", ret |-> <<>>] }
                      ELSE { IF i = "ok"
                             THEN [status |-> "ok", ret |-> <<WFcp(f)>>]
                             ELSE [status |-> "raise_ident", ret |-> <<>>] :
                             i \in IdentityOutcomes }]) :
            wret' = WrkRet("find_fits", FALSE, FALSE, fcp,
                           {f \in WFrames : "fits" \in wfs[f]},
                           [f \in WFrames |->
                               [status |-> b[f].status, ret |-> b[f].ret,
                                matching |-> /\ "fits" \in wfs[f]
                                             /\ IsMatchingFrame(b[f], fcp)]])
    /\ UNCHANGED <<regvars, selvars, arefvars, wfs, wbad, ismphot, dbret>>

\* the astromrefs tables the shift runs against: empty, an active row for key
\* "A", an inactive row for "A" with an active row for "B", active rows for both
AstromrefTables ==
    { <<>>,
      <<AstromrefRow("A", TRUE, 1, "a1")>>,
      <<AstromrefRow("A", FALSE, 1, "a1"), AstromrefRow("B", TRUE, 2, "a2")>>,
      <<AstromrefRow("A", TRUE, 1, "a1"), AstromrefRow("B", TRUE, 2, "a2")>> }

\* a frame's directory before the run: the frame is absent, lacks its source
\* list, is reduced, or was shifted in an earlier run; badframes is empty or holds the files of an earlier
\* quarantine of a frame of that name
InitXtrns ==
    /\ astromrefs \in AstromrefTables
    /\ photrefs = <<>> /\ files = <<>> /\ cachedcomb = <<>> /\ nops = 0
    /\ regret = <<>> /\ builders = <<>>
    /\ wfs \in [WFrames -> {{}, {"fits", "fiphot"}, ReducedFrame,
                             ReducedFrame \cup {"itrans", "xtrns", "xysdk"}}]
    /\ wbad \in [WFrames -> {{}, Siblings}]
    /\ wret = NoDriverCall
    /\ ismphot = [iphotfiles |-> {}, iphotobjects |-> {}]
    /\ dbret = [ncalls |-> 0, frame |-> 0, overwrite |-> FALSE,
                status |-> "none", raised |-> FALSE, val |-> FALSE]
    /\ SelIdle /\ ArefIdle

-----------------------------------------------------------------------------
(* Image subtraction and photometry: xtrnsfits_convsubphot_worker *)

\* the stages of the worker, in the order of its code
SubStages == <<"identity", "reference", "subtract", "photometry">>

\* one task's end: what the worker returned for the frame (ret = <<>> is
\* None, else <<convsub, subphot>>), the frame's files afterwards, and how
\* many stages the worker entered
SubEnd(status, ret, dir, nstages) ==
    [status |-> status, ret |-> ret, dir |-> dir, nstages |-> nstages]

\* what ism.subframe_convolution_worker and ism.subframe_photometry_worker
\* hand back: the path of the file written, or None after a failed run
SubframeOutcomes == {"ok", "fail"}

\* the subtracted frame counted as present whatever the tool did, a faulty
\* variant of the check after the subtraction
ConvsubExists_Unchecked(o, dir) == TRUE

\* convsub and os.path.exists(convsub)
ConvsubExists(o, dir) == o = "ok" /\ "subtracted" \in dir

\* a failed photometry reported as None for the frame, a faulty variant
StageSubPhotometry_NoneOnFailure(dir) ==
    { IF o = "ok"
      THEN SubEnd("ok", <<"subtracted", "iphot">>, dir \cup {"iphot"}, 4)
      ELSE SubEnd("err_phot", <<>>, dir, 4) :
      o \in SubframeOutcomes }

\* ism.subframe_photometry_worker on the subtracted frame with the combined
\* reference's cmrawphot; the result is returned whether or not the
\* photometry file exists
StageSubPhotometry(dir) ==
    { IF o = "ok"
      THEN SubEnd("ok", <<"subtracted", "iphot">>, dir \cup {"iphot"}, 4)
      ELSE SubEnd("err_phot", <<"subtracted", "None">>, dir, 4) :
      o \in SubframeOutcomes }

\* ism.subframe_convolution_worker with the reference's frame and regfile
StageSubtract(dir) ==
    UNION { LET after == IF o = "ok" THEN dir \cup {"subtracted"} ELSE dir
            IN  IF ~ConvsubExists(o, after)
                THEN { SubEnd("err_convsub", <<>>, after, 3) }
                ELSE StageSubPhotometry(after) :
            o \in SubframeOutcomes }

\* a subtraction run without a reference row, a faulty variant of the lookup
StageReference_AnyRow(frame, dir, table, photreftype) == StageSubtract(dir)

\* get_combined_photref(projectid, field, ccd, photreftype): raises when no
\* active row matches, which the worker's except turns into (frame, None)
StageReference(frame, dir, table, photreftype) ==
    UNION { IF r = <<>>
            THEN { SubEnd("raise_noref", <<>>, dir, 2) }
            ELSE StageSubtract(dir) :
            r \in FetchOne(table,
                           ActivePhotrefRows(table, WFcp(frame), photreftype)) }

\* xtrnsfits_convsubphot_worker(task): the set of ways the call can end
XtrnsfitsConvsubphotWorkerEnds(frame, dir, table, photreftype) ==
    UNION { IF i = "raise"
            THEN { SubEnd("raise_ident", <<>>, dir, 1) }
            ELSE StageReference(frame, dir, table, photreftype) :
            i \in IdentityOutcomes }

\* xtrnsfits_convsubphot(xtrnsfits, photreftype, ...) over all frames of the
\* batch; with no existing frame it returns None
XtrnsfitsConvsubphot ==
    /\ wret.op = "none"
    /\ \E photreftype \in {"oneframe", "onenight"} :
         \E b \in BatchEnds(NTasks,
                  [f \in WFrames |->
                      IF "xtrns" \notin wfs[f]
                      THEN { SubEnd("notsubmitted", <<>>, wfs[f], 0) }
                      ELSE XtrnsfitsConvsubphotWorkerEnds(f, wfs[f], photrefs,
                                                          photreftype)]) :
            /\ wfs' = [f \in WFrames |-> b[f].dir]
            /\ wret' = WrkRet("convsubphot", FALSE, FALSE, photreftype,
                              {f \in WFrames : "xtrns" \in wfs[f]},
                              [f \in WFrames |->
                                  [status |-> b[f].status, ret |-> b[f].ret,
                                   nstages |-> b[f].nstages]])
    /\ UNCHANGED <<regvars, selvars, arefvars, wbad, ismphot, dbret>>

\* parallel_convsubphotdb_worker(task): the call names
\* convsub_photometry_to_ismphot_databse and convsubphots, neither of which
\* is defined, so every task raises NameError
ParallelConvsubphotdbWorkerEnds == { "raise_nameerror" }

\* parallel_convsubphot_to_db(convsubfitslist, ...) on the subtracted frames
\* of the batch: None without tasks, else pool.map re-raises the first
\* worker exception
ParallelConvsubphotToDb ==
    /\ wret.op = "convsubphot"
    /\ LET tasks == {f \in WFrames : "subtracted" \in wfs[f]}
       IN  \E b \in BatchEnds(NTasks,
                      [f \in WFrames |->
                          IF f \in tasks THEN ParallelConvsubphotdbWorkerEnds
                          ELSE { "notsubmitted" }]) :
              wret' = WrkRet("to_db",
                             \E f \in tasks : b[f] = "raise_nameerror",
                             FALSE, wret.option, tasks,
                             IF \E f \in tasks : b[f] = "raise_nameerror"
                             THEN <<>>
                             ELSE [f \in WFrames |->
                                     [status |-> b[f], ret |-> <<>>,
                                      nstages |-> 0]])
    /\ UNCHANGED <<regvars, selvars, arefvars, wfs, wbad, ismphot, dbret>>

\* convsub_photometry_to_ismphot_database(convsubfits, overwrite=...) on the
\* subtracted frame of `frame` with the committed tables db: the set of ways
\* the call can end, each as <<status, committed tables afterwards>>.  The
\* iphotfiles insert is committed before the iphotobjects loop starts; a
\* rollback undoes only what was executed after the last commit.  The
\* message of the missing-original branch is formatted with '%ERR! sZ', so
\* that branch raises TypeError, which the generic except re-raises.  An
\* execute may also fail for the database's own reasons (raise_db)
ConvsubPhotometryToIsmphotDatabaseEnds(frame, dir, overwrite, db) ==
    IF "iphot" \notin dir THEN { <<"err_noiphot", db>> }
    ELSE IF "fits" \notin dir THEN { <<"raise_nofits", db>> }
    ELSE IF ~overwrite /\ frame \in db.iphotfiles
    THEN { <<"err_conflict", db>> }
    ELSE LET filed == [db EXCEPT !.iphotfiles = @ \cup {frame}]
             stored == [filed EXCEPT !.iphotobjects =
                                        @ \cup ({frame} \X (1..NObjects))]
         IN  { <<"raise_db", db>> }
             \cup IF ~overwrite
                     /\ \E i \in 1..NObjects : <<frame, i>> \in db.iphotobjects
                  THEN { <<"err_conflict", filed>> }
                  ELSE { <<"ok", stored>>, <<"raise_db", filed>> }

\* a direct call of convsub_photometry_to_ismphot_database on one subtracted
\* frame of the batch; it returns (convsubfits, True) after the second
\* commit, (convsubfits, False) on the early returns and on IntegrityError,
\* and raises on any other exception
ConvsubPhotometryToIsmphotDatabase ==
    /\ wret.op = "convsubphot"
    /\ dbret.ncalls < MaxIngests
    /\ \E frame \in WFrames, overwrite \in BOOLEAN :
          /\ "subtracted" \in wfs[frame]
          /\ \E e \in ConvsubPhotometryToIsmphotDatabaseEnds(
                          frame, wfs[frame], overwrite, ismphot) :
                /\ ismphot' = e[2]
                /\ dbret' = [ncalls |-> dbret.ncalls + 1, frame |-> frame,
                             overwrite |-> overwrite, status |-> e[1],
                             raised |-> e[1] \in {"raise_nofits", "raise_db"},
                             val |-> e[1] = "ok"]
    /\ UNCHANGED <<regvars, selvars, arefvars, wfs, wbad, wret>>

\* the photrefs tables the subtraction runs against: empty, an active
\* oneframe row for key "A", an inactive one with an active row for "B",
\* active rows for both
PhotrefTables ==
    { <<>>,
      <<PhotrefRow("A", "oneframe", TRUE, 1, "mA")>>,
      <<PhotrefRow("A", "oneframe", FALSE, 1, "mA"),
        PhotrefRow("B", "oneframe", TRUE, 2, "mA")>>,
      <<PhotrefRow("A", "oneframe", TRUE, 1, "mA"),
        PhotrefRow("B", "oneframe", TRUE, 2, "mA")>> }

\* a frame's directory before the run: no shifted frame, a shifted frame
\* whose calibrated original is elsewhere, or a shifted frame beside its
\* original with its transform and xysdk sidecars
InitSub ==
    /\ photrefs \in PhotrefTables
    /\ astromrefs = <<>> /\ files = <<>> /\ cachedcomb = <<>> /\ nops = 0
    /\ regret = <<>> /\ builders = <<>>
    /\ wfs \in [WFrames -> {{}, {"xtrns"},
                             {"fits", "xtrns", "itrans", "xysdk"}}]
    /\ wbad = [f \in WFrames |-> {}]
    /\ wret = NoDriverCall
    /\ ismphot = [iphotfiles |-> {}, iphotobjects |-> {}]
    /\ dbret = [ncalls |-> 0, frame |-> 0, overwrite |-> FALSE,
                status |-> "none", raised |-> FALSE, val |-> FALSE]
    /\ SelIdle /\ ArefIdle

\* the drivers that start from reduced frames, and the subtraction driver on
\* the frames shifted before the run (no combined reference is registered)
NextXtrns ==
    \/ FramelistMakeXtrnsfits
    \/ GetSmoothedXysdkCoeffs
    \/ FindOriginalFitsFieldprojectidccd
    \/ XtrnsfitsConvsubphot

SpecXtrns == InitXtrns /\ [][NextXtrns]_vars

NextSub ==
    \/ XtrnsfitsConvsubphot
    \/ ConvsubPhotometryToIsmphotDatabase
    \/ ParallelConvsubphotToDb

SpecSub == InitSub /\ [][NextSub]_vars

-----------------------------------------------------------------------------
(* Shift to the astrometric reference: claims *)

\* the worker got as far as a warp check that reported the frame as warped
WarpReported(f) == wret.results[f].status \in {"warped", "raise_move"}

\* C12: a frame is relocated to badframes if and only if shift computation and
\* transform application succeeded and the enabled warp check reported it
\* warped; on identity failure, missing active astromref, shift-computation or
\* transform-application failure the worker returns (frame, None) and moves no
\* file; with warpcheck off no frame is quarantined.
C12_QuarantineOnlyOnWarp ==
    [][ (wret.op = "none" /\ wret'.op = "make_xtrnsfits") =>
          \A f \in WFrames :
             LET res == wret'.results[f]
                 relocated == "fits" \in wbad'[f] \ wbad[f] /\ "fits" \notin wfs'[f]
             IN  /\ relocated <=>
                       (wret'.warpcheck /\ res.status \in {"warped", "raise_move"})
                 /\ res.status \in {"err_ident", "raise_noaref",
                                    "err_shiftcalc", "err_shift"} =>
                       (res.ret = <<>> /\ wbad'[f] = wbad[f])
                 /\ ~wret'.warpcheck => wbad'[f] = wbad[f] ]_vars

\* C13: when the warp check fails for a frame, its result is None, the frame
\* and every sibling file of its base name are in badframes beside the frame,
\* and none of them remains in the original directory.
C13_WarpedFrameFullyQuarantined ==
    wret.op = "make_xtrnsfits" =>
        \A f \in WFrames :
            WarpReported(f) =>
                /\ wret.results[f].ret = <<>>
                /\ {"fits", "fistar", "itrans", "xtrns"} \subseteq wbad[f]
                /\ wfs[f] \cap Siblings = {}

-----------------------------------------------------------------------------
(* Image subtraction and photometry: claims *)

\* the registry holds an active combined reference for the frame's key and
\* the reference type of the call
HasActivePhotref(f) == ActivePhotrefRows(photrefs, WFcp(f), wret.option) # {}

\* C14: for a frame whose (project, field, ccd, referenceType) key has no
\* active combined reference, xtrnsfits_convsubphot_worker ends with result
\* None without invoking subtraction or photometry and without writing a file.
C14_NoReferenceIsTerminal ==
    wret.op = "convsubphot" =>
        \A f \in wret.tasks :
            ~HasActivePhotref(f) =>
                /\ wret.results[f].ret = <<>>
                /\ wret.results[f].nstages <= 2
                /\ "subtracted" \notin wfs[f] /\ "iphot" \notin wfs[f]

C14_Witness ==
    /\ wret.op = "convsubphot"
    /\ \E f, g \in wret.tasks :
          /\ ~HasActivePhotref(f) /\ wret.results[f].status = "raise_noref"
          /\ HasActivePhotref(g) /\ wret.results[g].status = "ok"

\* C15: every run of the worker follows the order identity, active reference
\* found, convolve-and-subtract, photometry: subtraction is attempted only
\* after a reference was found, photometry only after the subtraction
\* produced an existing subtracted frame, and a failure at a stage is
\* terminal.
C15_StageOrder ==
    wret.op = "convsubphot" =>
        \A f \in wret.tasks :
            LET res == wret.results[f]
            IN  /\ res.nstages \in 1..Len(SubStages)
                /\ res.nstages >= 3 => HasActivePhotref(f)
                /\ res.nstages >= 4 => "subtracted" \in wfs[f]
                /\ res.status = "raise_ident" => res.nstages = 1
                /\ res.status = "raise_noref" => res.nstages = 2
                /\ res.status = "err_convsub" => res.nstages = 3
                /\ res.nstages < 3 => "subtracted" \notin wfs[f]
                /\ res.nstages < 4 => "iphot" \notin wfs[f]

C15_Witness ==
    /\ wret.op = "convsubphot"
    /\ \E f, g \in wret.tasks :
          /\ wret.results[f].status = "ok" /\ wret.results[f].nstages = 4
          /\ wret.results[g].status = "err_convsub"

\* C16: when subtraction succeeds but the photometry fails, the result for
\* the frame still reports the subtracted frame (with no photometry path);
\* when the subtraction fails the result is None.
C16_PartialSuccess ==
    wret.op = "convsubphot" =>
        \A f \in wret.tasks :
            /\ ("subtracted" \in wfs[f] /\ "iphot" \notin wfs[f]) =>
                  wret.results[f].ret = <<"subtracted", "None">>
            /\ "subtracted" \notin wfs[f] => wret.results[f].ret = <<>>

C16_Witness ==
    /\ wret.op = "convsubphot"
    /\ \E f, g \in wret.tasks :
          /\ "subtracted" \in wfs[f] /\ "iphot" \notin wfs[f]
          /\ wret.results[f].ret = <<"subtracted", "None">>
          /\ wret.results[g].status = "err_convsub"

\* C17: the collection a batch driver returns has an entry for every task it
\* submitted; an exception in one task is captured as that task's failure and
\* never aborts the batch.
C17_BatchReturnsEveryTask ==
    wret.op # "none" =>
        /\ ~wret.raised
        /\ \A f \in wret.tasks :
              /\ f \in DOMAIN wret.results
              /\ wret.results[f].status # "notsubmitted"

-----------------------------------------------------------------------------
(* Astrometric reference registration and lookups: claims *)

\* C18: whenever generate_astromref selects a reference frame (and nothing
\* in its environment fails), it copies the frame, its quick-look image and
\* its source list into the reference area and inserts exactly one astromrefs
\* row, active, for the frame's (field, projectId, ccd), whether the key is
\* derived from the frame or supplied by the caller.
C18_SelectedReferenceRegistered ==
    [][ ( /\ regret'.op = "genaref"
          /\ nops' = nops + 1
          /\ regret'.makeactive
          /\ regret'.status \notin {"err_nogood", "err_noaref", "raise_header",
                                    "err_ccd", "raise_copy", "err_insert"} )
        => /\ Len(astromrefs') = Len(astromrefs) + 1
           /\ astromrefs'[Len(astromrefs')].isactive = 1
           /\ astromrefs'[Len(astromrefs')].fcp = regret'.fcp
           /\ Cardinality({ p \in DOMAIN files' : files'[p] = regret'.stamp }) = 3
      ]_vars

\* C19: when one of the three copies of generate_astromref fails, no row is
\* written to astromrefs and none of this run's copies is left in the
\* reference area.
C19_CopyFailureLeavesNothing ==
    [][ ( /\ regret'.op = "genaref"
          /\ nops' = nops + 1
          /\ regret'.status = "raise_copy" )
        => /\ astromrefs' = astromrefs
           /\ files' = files
      ]_vars

\* C20: get_astromref and get_combined_photref, called for a key without an
\* active row, return no record (get_astromref gives None, get_combined_photref
\* raises) and leave the registry unchanged.
C20_LookupNotFound ==
    [][ /\ ( /\ regret'.op = "getaref" /\ regret' # regret
             /\ ActiveAstromrefRows(astromrefs, regret'.fcp) = {} )
           => /\ regret'.ret = <<>> /\ regret'.status = "none"
              /\ astromrefs' = astromrefs /\ photrefs' = photrefs
        /\ ( /\ regret'.op = "getphotref" /\ regret' # regret
             /\ ActivePhotrefRows(photrefs, regret'.fcp, regret'.type) = {} )
           => /\ regret'.ret = <<>> /\ regret'.status = "raise"
              /\ astromrefs' = astromrefs /\ photrefs' = photrefs
      ]_vars

C20_Witness ==
    /\ regret.op = "getaref" /\ regret.status = "none"
    /\ \E i \in DOMAIN astromrefs :
          astromrefs[i].fcp = regret.fcp /\ astromrefs[i].isactive = 0
    /\ \E i \in DOMAIN photrefs : photrefs[i].isactive = 0

-----------------------------------------------------------------------------
(* The caches and the review of candidates: claims *)

\* C21: generate_photref_candidates_from_xtrns never raises: when a selection
\* stage leaves no frames, or the cached data cannot be used, it returns a
\* record whose master, candidates and quick-look lists are null while the
\* per-frame metrics and the thresholds are present.
C21_SelectionNeverRaises ==
    selret.op = "generate" =>
        /\ selret.status \in {"cached", "computed", "failed", "failed_jpeg"}
        /\ selret.status \in {"failed", "failed_jpeg"} =>
              /\ selret.info.null
              /\ selret.info.masterphotref = <<>>
              /\ selret.info.photrefs = <<>>
              /\ selret.info.photrefjpegs = <<>>
              /\ selret.info.th = selret.th
              /\ ficache[selret.info.framelist] # <<>>

\* C22: in amend_candidate_photrefs, removing candidate F removes F from the
\* candidate list and removes and deletes the quick-look image generated for
\* F, so the two lists stay paired one to one; the master is replaced only by
\* a path that exists on disk.
C22_AmendKeepsPairs ==
    [][ ( /\ selret'.op = "amend" /\ selret'.status = "amended"
          /\ nsel' = nsel + 1
          /\ \A k \in 1..Len(selret.info.photrefs) :
                selret.info.photrefjpegs[k] =
                    JpegPath(selret.info.cachekey, selret.info.photrefs[k]) )
        => LET old == selret.info
               new == selret'.info
               X   == selret'.removals \cap Range(old.photrefs)
           IN  /\ Range(new.photrefs) = Range(old.photrefs) \ X
               /\ Len(new.photrefjpegs) = Len(new.photrefs)
               /\ \A k \in 1..Len(new.photrefs) :
                     new.photrefjpegs[k] = JpegPath(new.cachekey, new.photrefs[k])
               /\ jpegs' = jpegs \ { JpegPath(old.cachekey, f) : f \in X }
               /\ new.masterphotref =
                     IF selret'.newmaster # <<>> /\ selret'.newmaster[1] \in Frames
                     THEN selret'.newmaster ELSE old.masterphotref
      ]_vars

\* C23: two calls of generate_photref_candidates_from_xtrns that differ in a
\* threshold value or in the frame list never share a cache entry: a cache
\* hit returns a set selected under the thresholds of the current call.
C23_CacheKeyedByAllThresholds ==
    (selret.op = "generate" /\ selret.status = "cached") =>
        /\ selret.info.th = selret.th
        /\ selret.info.minframes = selret.mf

C25_EntryChangedOnlyByAmend ==
    [][ \A key \in CacheKeys :
           ( /\ selcache[key] # <<>>
             /\ selcache'[key] # selcache[key] )
           => selret'.op = "amend"
      ]_vars

\* C26: a cache file that cannot be read, of the frame-info cache or of the
\* selection cache, is treated as a cache miss: the call recomputes the
\* result and rewrites the entry instead of failing.
C26_UnreadableBlobIsCacheMiss ==
    [][ ( selret'.op \in {"frameinfo", "generate"} /\ nsel' = nsel + 1 ) =>
           LET fl  == selret'.info.framelist
               key == selret'.info.cachekey
           IN  /\ fl \in corrupt.fi =>
                     /\ selret'.status \notin {"raise", "raise_frameinfo"}
                     /\ fl \notin corrupt'.fi
                     /\ ficache'[fl] = <<CollectFrameInfo(fl, diskinfo)>>
               /\ ( selret'.op = "generate" /\ key \in corrupt.sel ) =>
                     /\ selret'.status # "raise_selcache"
                     /\ selret'.status = "computed" =>
                           key \notin corrupt'.sel /\ selcache'[key] # <<>>
      ]_vars

-----------------------------------------------------------------------------
(* Workers: further claims *)

\* C27: in xtrnsfits_convsubphot_worker, after a successful subtraction, if
\* one of the sidecar files located by name (kernel, itrans, xysdk) does not
\* exist, the worker stops without invoking the differential photometry.
C27_MissingSidecarsStopBeforePhotometry ==
    wret.op = "convsubphot" =>
        \A f \in wret.tasks :
            ( /\ "subtracted" \in wfs[f]
              /\ ~({"itrans", "xysdk"} \subseteq wfs[f]) )
            => /\ wret.results[f].nstages < 4
               /\ "iphot" \notin wfs[f]

-----------------------------------------------------------------------------
(* The registry: further claims *)

\* C28: get_astromref and get_combined_photref only ever return a row of the
\* registry whose isactive flag is 1 and whose key (and reference type)
\* equals the requested one.
C28_LookupReturnsActiveRowOfKey ==
    /\ ( regret.op = "getaref" /\ regret.ret # <<>> ) =>
          /\ \E i \in DOMAIN astromrefs : astromrefs[i] = regret.ret[1]
          /\ regret.ret[1].isactive = 1
          /\ regret.ret[1].fcp = regret.fcp
    /\ ( regret.op = "getphotref" /\ regret.ret # <<>> ) =>
          /\ \E i \in DOMAIN photrefs : photrefs[i] = regret.ret[1]
          /\ regret.ret[1].isactive = 1
          /\ regret.ret[1].fcp = regret.fcp
          /\ regret.ret[1].photreftype = regret.type

C28_Witness ==
    /\ regret.op = "getaref" /\ regret.ret # <<>>
    /\ \E i \in DOMAIN astromrefs :
          astromrefs[i].fcp = regret.fcp /\ astromrefs[i].isactive = 0

\* C29: if the registry insert fails during generate_astromref or
\* generate_combined_photref, every existing row is left unchanged and the
\* failure is surfaced: what the caller gets differs from what a successful
\* registration returns.
C29_InsertFailureSurfaced ==
    [][ ( /\ regret'.op \in {"build", "genaref"}
          /\ nops' = nops + 1
          /\ regret'.status = "err_insert" )
        => /\ photrefs' = photrefs
           /\ astromrefs' = astromrefs
           /\ GenerateReturn(regret'.op, regret'.status)
                 # GenerateReturn(regret'.op, "ok")
      ]_vars

\* C30: when the external tool exits non-zero in astromref_shift_worker,
\* frame_to_astromref_worker or xysdk_coeffs_worker, the worker returns
\* (input, None) and no output file exists afterwards at the path the tool
\* was asked to write.
C30_FailedToolLeavesNoOutput ==
    /\ wret.op = "make_xtrnsfits" =>
          \A f \in wret.tasks :
              /\ wret.results[f].status = "err_shiftcalc" =>
                    /\ wret.results[f].ret = <<>>
                    /\ ItransWritten(wret.option) \notin wfs[f]
              /\ ( wret.results[f].status = "err_shift" /\ "itrans" \in wfs[f] ) =>
                    /\ wret.results[f].ret = <<>>
                    /\ "xtrns" \notin wfs[f]
    /\ wret.op = "xysdk" =>
          \A f \in wret.tasks :
              wret.results[f].status = "err_xysdk" =>
                  /\ wret.results[f].ret = <<>>
                  /\ "xysdk" \notin wfs[f]

C30_Witness ==
    /\ wret.op = "make_xtrnsfits"
    /\ \E f, g \in wret.tasks :
          /\ wret.results[f].status = "err_shift"
          /\ "itrans" \in wfs[f] /\ "xtrns" \notin wfs[f]
          /\ wret.results[g].status = "err_shiftcalc"

-----------------------------------------------------------------------------
(* The caches: further claims *)

\* C39: a force-refresh request to generate_photref_candidates_from_xtrns
\* (forcecollectinfo=True) recomputes the selection from freshly collected
\* quality metrics: it uses neither the cached selection entry nor a
\* previously cached frame-metrics entry of the frame list.
C39_ForceRefreshUsesFreshMetrics ==
    [][ ( /\ selret'.op = "generate" /\ selret'.force /\ nsel' = nsel + 1
          /\ selret'.info.framelist \notin corrupt.fi ) =>
           LET fl    == selret'.info.framelist
               fresh == CollectFrameInfo(fl, diskinfo)
           IN  /\ selret'.status # "cached"
               /\ ficache'[fl] = <<fresh>>
               /\ selret'.status = "computed" =>
                     selret'.info =
                         ComputedPhotrefInfo(fl, selret'.info.cachekey,
                                             selret'.mf, selret'.th,
                                             FinalFrames(fresh, selret'.mf,
                                                         selret'.th, tiebreak))
      ]_vars

\* C35: in every persisted candidate set with a non-null master, after
\* selection and after any sequence of amendments, the master frame is a
\* member of the candidate list; removing the current master from the
\* candidates by amend_candidate_photrefs does not leave a master that is no
\* longer a candidate.
C35_MasterIsCandidate ==
    \A key \in CacheKeys :
        ( selcache[key] # <<>> /\ selcache[key][1].masterphotref # <<>> ) =>
            selcache[key][1].masterphotref[1] \in Range(selcache[key][1].photrefs)

-----------------------------------------------------------------------------
(* Workers: the transform file *)

\* C36: in frames_astromref_worker, for every setting of outdir (unset, the
\* frame's directory, another directory), the transform file read by the
\* transform-application step is the file written by the preceding
\* shift-computation step: a frame whose shift computation succeeded is never
\* reported failed with its transform file not found.
C36_TransformReadsWrittenItrans ==
    wret.op = "make_xtrnsfits" =>
        \A f \in wret.tasks :
            wret.results[f].status = "err_shift" => "itrans" \in wfs[f]

-----------------------------------------------------------------------------
(* The frame-info record: claims *)

\* C33: the record built by fitslist_frameinfo has exactly one entry per input
\* frame, in input order; a frame whose sidecar files are missing or
\* unreadable is kept in the record with NaN in every metric, and it is
\* neither a candidate nor the master of a selection computed from the record.
C33_MissingFramesKeptButNotSelected ==
    ( selret.op = "generate" /\ selret.status \in {"computed", "failed"} ) =>
        LET fl  == selret.info.framelist
            rec == ficache[fl][1]
        IN  /\ Len(rec) = Len(fl)
            /\ \A k \in 1..Len(fl) :
                  /\ rec[k].frame = fl[k]
                  /\ diskinfo[fl[k]] = NoFrameInfo =>
                        /\ rec[k].m = NoFrameInfo
                        /\ fl[k] \notin Range(selret.info.photrefs)
                        /\ selret.info.masterphotref # <<fl[k]>>

C33_Witness ==
    /\ selret.op = "generate" /\ selret.status = "computed"
    /\ Len(selret.info.photrefs) >= 2
    /\ \E k \in 1..(Len(selret.info.framelist) - 1) :
          /\ diskinfo[selret.info.framelist[k]] = NoFrameInfo
          /\ ficache[selret.info.framelist][1][k + 1].frame
                \in Range(selret.info.photrefs)

-----------------------------------------------------------------------------
(* The registry and the selection cache *)

\* C37: after generate_combined_photref returns, the cache entry of the
\* candidate set carries the metadata of a combined reference
\* ('combinedphotref') only if the photrefs table holds a row for that
\* combined reference; a build that ends without a row does not leave the
\* build recorded in the cache entry.
C37_CacheRecordsOnlyRegisteredBuilds ==
    cachedcomb # <<>> =>
        \E k \in 1..Len(photrefs) :
            /\ photrefs[k].unixtime = cachedcomb[1].stamp
            /\ photrefs[k].photreftype = cachedcomb[1].reftype

-----------------------------------------------------------------------------
(* Identity resolution: claims *)

\* C32: a frame whose identity cannot be resolved (header keys missing or
\* file name not matching the pattern) yields a failure value, not a crash:
\* it is never in the matching frames returned by
\* find_original_fits_fieldprojectidccd, and neither frames_astromref_worker
\* nor xtrnsfits_convsubphot_worker goes past identity resolution for it.
C32_UnresolvedFramesDropped ==
    [][ wret.op = "none" =>
          /\ wret'.op = "find_fits" =>
                /\ ~wret'.raised
                /\ \A f \in WFrames :
                      /\ wret'.results[f].status = "raise_ident" =>
                            /\ wret'.results[f].ret = <<>>
                            /\ ~wret'.results[f].matching
                      /\ wret'.results[f].matching =>
                            /\ f \in wret'.tasks
                            /\ wret'.results[f].ret = <<wret'.option>>
          /\ wret'.op = "make_xtrnsfits" =>
                \A f \in wret'.tasks :
                    wret'.results[f].status = "raise_ident" =>
                        /\ ~wret'.raised
                        /\ wret'.results[f].ret = <<>>
                        /\ wfs'[f] = wfs[f] /\ wbad'[f] = wbad[f]
          /\ wret'.op = "convsubphot" =>
                \A f \in wret'.tasks :
                    wret'.results[f].status = "raise_ident" =>
                        /\ ~wret'.raised
                        /\ wret'.results[f].ret = <<>>
                        /\ wret'.results[f].nstages = 1
                        /\ wfs'[f] = wfs[f]
      ]_vars

C32_Witness ==
    /\ wret.op = "find_fits"
    /\ \E f, g \in wret.tasks :
          /\ wret.results[f].status = "raise_ident"
          /\ wret.results[g].matching

-----------------------------------------------------------------------------
(* Ingestion into the photometry database: claims *)

\* C31: convsub_photometry_to_ismphot_database called with overwrite=False
\* for a frame whose photometry records already exist returns
\* (frame, False) without raising and leaves the ingestion store unchanged,
\* and the conflict does not prevent the other frames of the same batch
\* from being ingested.
C31_ConflictIsNonFatal ==
    [][/\ (/\ dbret'.ncalls = dbret.ncalls + 1
           /\ ~dbret'.overwrite
           /\ dbret'.frame \in ismphot.iphotfiles
           /\ {"fits", "iphot"} \subseteq wfs[dbret'.frame])
          => (~dbret'.raised /\ ~dbret'.val /\ ismphot' = ismphot)
       /\ (wret.op = "convsubphot" /\ wret'.op = "to_db")
          => \A f, g \in wret'.tasks :
                (/\ g \in ismphot.iphotfiles
                 /\ f \notin ismphot.iphotfiles
                 /\ {"fits", "iphot"} \subseteq wfs[f])
                => f \in ismphot'.iphotfiles]_vars

\* C38: ingestion of one subtracted frame is atomic: after a call either the
\* frame's iphotfiles record and all of its iphotobjects records are stored,
\* or none of them is.
C38_IngestionIsAtomic ==
    dbret.ncalls > 0 =>
        \A f \in WFrames :
           IF f \in ismphot.iphotfiles
           THEN \A i \in 1..NObjects : <<f, i>> \in ismphot.iphotobjects
           ELSE \A i \in 1..NObjects : <<f, i>> \notin ismphot.iphotobjects

-----------------------------------------------------------------------------
(* Concurrent builders: claims *)

\* C34: two builders running concurrently for the same (field, projectId,
\* ccd, referenceType) key and interleaving their registry writes can both
\* commit a row with isactive=1: a builder's insert that does not fail
\* appends its row, active when it was asked to be, whatever the other
\* builder has committed since this one started, and changes no other row;
\* nothing locks the key or compares the table before the write.
C34_BothBuildersCommitActive ==
    [][\A b \in 1..NBuilders :
          (/\ builders[b].pc = "insert"
           /\ builders'[b].pc = "done"
           /\ builders'[b].status = "ok")
          => /\ Len(photrefs') = Len(photrefs) + 1
             /\ SubSeq(photrefs', 1, Len(photrefs)) = photrefs
             /\ photrefs'[Len(photrefs')].unixtime = builders[b].stamp
             /\ photrefs'[Len(photrefs')].isactive
                  = IF builders[b].makeactive THEN 1 ELSE 0]_vars

\* two active rows of one key, the row committed first carrying the later
\* time stamp: the two builders overlapped
C34_Witness ==
    \E i, j \in 1..Len(photrefs) :
       /\ i < j
       /\ photrefs[i].fcp = photrefs[j].fcp
       /\ photrefs[i].photreftype = photrefs[j].photreftype
       /\ photrefs[i].isactive = 1 /\ photrefs[j].isactive = 1
       /\ photrefs[i].unixtime > photrefs[j].unixtime
       /\ \A b \in 1..NBuilders : builders[b].status = "ok"


=============================================================================
